---- MODULE Spec2Model ----
(***************************************************************************)
(* A model of the analysis orchestration pipeline of the Label Studio      *)
(* audio ML backend (src/src/enhanced_api.py): the result formatter, the   *)
(* Gemini model client with its retry / fallback loop, the audio source    *)
(* resolver, the segment extractor and the two request handlers            *)
(* (predict, transcribe_segment) that compose them; and of the predict     *)
(* handler of the simple backend (src/src/simple_api.py) with its own      *)
(* download_audio.                                                         *)
(*                                                                         *)
(* Python dicts are modelled as functions whose DOMAIN is the set of keys  *)
(* that are present; d.get(k, default) is Get(d, k, default).  Strings the *)
(* code inspects by prefix are sequences of lexemes.                       *)
(***************************************************************************)
EXTENDS Integers, Sequences, FiniteSets, TLC

(***************************************************************************)
(* Bounds of the model.                                                    *)
(***************************************************************************)
\* longest "segments" list of an analysis handed to the formatter
MaxSegs == 2

(***************************************************************************)
(* Python dict helpers.                                                    *)
(***************************************************************************)
EmptyDict == <<>>

Get(d, k, default) == IF k \in DOMAIN d THEN d[k] ELSE default

\* mutant: tests that the key is there, not that its value is non-empty
Truthy_KeyOnly(d, k) == k \in DOMAIN d

\* "if d.get(k):" for a string-valued key: the key is there and its value is
\* not the empty string.
Truthy(d, k) == k \in DOMAIN d /\ d[k] # ""

\* the dicts that hold key k with one of the values vals, or do not hold k
Opt(k, vals) == {EmptyDict} \cup {k :> v : v \in vals}

(***************************************************************************)
(* Analysis results: what json.loads returns for the model's text.         *)
(* kind "dict" is a JSON object; kind "other" is any other JSON document   *)
(* (a list, a number, ...), which json.loads returns just as readily.      *)
(* The "segments" value is tagged: absent key, JSON null, or a list.       *)
(***************************************************************************)
SpeakerVals == {"Speaker_2"}
LanguageVals == {"Uzbek"}
GenderVals == {"Male"}
EmotionVals == {"Happy"}
TextVals == {"", "salom"}
SummaryVals == {"", "Qisqa xulosa"}

\* one element of "segments": a dict with any subset of the optional keys
SegmentDicts ==
    { ((("start_time" :> 2) @@ ("end_time" :> 7)) @@ a @@ b @@ c @@ d @@ e) :
        a \in Opt("speaker_id", SpeakerVals),
        b \in Opt("language", LanguageVals),
        c \in Opt("gender", GenderVals),
        d \in Opt("emotion", EmotionVals),
        e \in Opt("text", TextVals) }

SegLists(n) == UNION { [1..k -> SegmentDicts] : k \in 0..n }

Analysis(segT, segs, extra) ==
    [kind |-> "dict", segT |-> segT, segments |-> segs, d |-> extra]

NonDictJson == [kind |-> "other", segT |-> "absent", segments |-> <<>>, d |-> EmptyDict]

\* analysis.get("segments") is truthy: the key holds a non-empty list
HasSegments(analysis) == analysis.segT = "list" /\ Len(analysis.segments) > 0

(***************************************************************************)
(* Result Formatter: format_enhanced_predictions.                          *)
(* uuid.uuid4() is a random draw; the draws of one call are the sequence   *)
(* ids, one per iteration of the segment loop.                             *)
(***************************************************************************)
\* a sample of the values str(uuid.uuid4())[:8] can take
RegionIds == {"1f3a9c02", "b7e5d210"}

RegionValue(segment) ==
    [start |-> Get(segment, "start_time", 0), end |-> Get(segment, "end_time", 0)]

LabelsEntry(segment, segment_id) ==
    [id |-> segment_id,
     value |-> [start |-> RegionValue(segment).start,
                end |-> RegionValue(segment).end,
                labels |-> <<Get(segment, "speaker_id", "Speaker 1")>>,
                channel |-> 0],
     from_name |-> "speaker_labels", to_name |-> "audio",
     type |-> "labels", origin |-> "prediction"]

\* mutant: the choices entry gets an identifier of its own
ChoicesEntry_OwnId(segment, segment_id, key) ==
    [id |-> "0badc0de",
     value |-> [start |-> Get(segment, "start_time", 0),
                end |-> Get(segment, "end_time", 0),
                choices |-> <<segment[key]>>,
                channel |-> 0],
     from_name |-> key, to_name |-> "audio",
     type |-> "choices", origin |-> "prediction"]

ChoicesEntry(segment, segment_id, key) ==
    [id |-> segment_id,
     value |-> [start |-> RegionValue(segment).start,
                end |-> RegionValue(segment).end,
                choices |-> <<segment[key]>>,
                channel |-> 0],
     from_name |-> key, to_name |-> "audio",
     type |-> "choices", origin |-> "prediction"]

\* mutant: the region identifier is written into the payload as well
TextEntry_IdInPayload(segment, segment_id) ==
    [id |-> segment_id,
     value |-> [start |-> Get(segment, "start_time", 0),
                end |-> Get(segment, "end_time", 0),
                text |-> <<segment["text"], segment_id>>,
                channel |-> 0],
     from_name |-> "transcription", to_name |-> "audio",
     type |-> "textarea", origin |-> "prediction"]

TextEntry(segment, segment_id) ==
    [id |-> segment_id,
     value |-> [start |-> RegionValue(segment).start,
                end |-> RegionValue(segment).end,
                text |-> <<segment["text"]>>,
                channel |-> 0],
     from_name |-> "transcription", to_name |-> "audio",
     type |-> "textarea", origin |-> "prediction"]

\* mutant: the summary entry is tied to a region like the segment entries
SummaryEntry_WithRegion(analysis) ==
    [id |-> "summary", value |-> [text |-> <<analysis.d["summary_uzbek"]>>],
     from_name |-> "summary", to_name |-> "audio",
     type |-> "textarea", origin |-> "prediction"]

SummaryEntry(analysis) ==
    [value |-> [text |-> <<analysis.d["summary_uzbek"]>>],
     from_name |-> "summary", to_name |-> "audio",
     type |-> "textarea", origin |-> "prediction"]

\* the body of the segment loop: the entries appended for one segment
SegmentEntries(segment, segment_id) ==
    <<LabelsEntry(segment, segment_id)>>
    \o (IF Truthy(segment, "language")
        THEN <<ChoicesEntry(segment, segment_id, "language")>> ELSE <<>>)
    \o (IF Truthy(segment, "gender")
        THEN <<ChoicesEntry(segment, segment_id, "gender")>> ELSE <<>>)
    \o (IF Truthy(segment, "emotion")
        THEN <<ChoicesEntry(segment, segment_id, "emotion")>> ELSE <<>>)
    \o (IF Truthy(segment, "text")
        THEN <<TextEntry(segment, segment_id)>> ELSE <<>>)

RECURSIVE SegmentLoop(_, _, _)
SegmentLoop(segments, ids, i) ==
    IF i > Len(segments) THEN <<>>
    ELSE SegmentEntries(segments[i], ids[i]) \o SegmentLoop(segments, ids, i + 1)

\* analysis.get(...) on a value that is no dict raises AttributeError
FormatRaises(analysis) == analysis.kind # "dict"

format_enhanced_predictions(analysis, ids) ==
    [result |->
        (IF HasSegments(analysis)
         THEN SegmentLoop(analysis.segments, ids, 1) ELSE <<>>)
        \o (IF Truthy(analysis.d, "summary_uzbek")
            THEN <<SummaryEntry(analysis)>> ELSE <<>>),
     score |-> "0.95",
     model_version |-> "gemini-1.5-flash-enhanced"]

(***************************************************************************)
(* Model Client: the fixed results of analyze_audio_with_gemini.           *)
(***************************************************************************)
get_fallback_response ==
    Analysis("list",
        << [start_time |-> 0, end_time |-> 10, speaker_id |-> "Speaker_1",
            text |-> "[Content could not be analyzed due to safety filters]",
            language |-> "unknown", gender |-> "unknown", emotion |-> "neutral"] >>,
        [summary_uzbek |-> "Audio tahlili xavfsizlik filtrlari tufayli bajarilmadi.",
         languages_detected |-> <<"unknown">>,
         total_speakers |-> 1,
         emotions_detected |-> <<"neutral">>,
         named_entities |-> <<>>])

\* the default structure returned by the handlers of the retry loop
DefaultStructure(message) ==
    Analysis("list",
        << [speaker_id |-> "Speaker 1", start_time |-> 0, end_time |-> 1,
            text |-> message, language |-> "Uzbek", gender |-> "Unknown",
            emotion |-> "Neutral", confidence |-> "0.0"] >>,
        [speakers |-> <<>>,
         summary_uzbek |-> message,
         total_duration |-> 0,
         languages_detected |-> <<>>,
         dominant_emotion |-> "Neutral"])

JsonErrorResult == DefaultStructure("Audio tahlil qilishda xatolik yuz berdi")

ExceptionResult == DefaultStructure("Audio tahlilida xatolik")

(***************************************************************************)
(* What the external model can answer.  A text is a sequence of lexemes:   *)
(* an opening json code fence, a bare code fence, one serialised JSON     *)
(* document, or text that is no JSON.                                      *)
(***************************************************************************)
FenceJson == [t |-> "fence_json"]
Fence == [t |-> "fence"]
Junk == [t |-> "junk"]
JsonOf(doc) == [t |-> "json", v |-> doc]

DocGood ==
    Analysis("list",
        << [speaker_id |-> "Speaker 1", start_time |-> 0, end_time |-> 5,
            text |-> "salom", language |-> "Uzbek"] >>,
        [summary_uzbek |-> "Qisqa xulosa"])

DocNoSegments == Analysis("list", <<>>, [summary_uzbek |-> "Qisqa xulosa"])

DocNullSegments == Analysis("null", <<>>, EmptyDict)

ModelDocs == {DocGood, DocNoSegments, DocNullSegments, NonDictJson}

ModelTexts ==
    { <<JsonOf(doc)>> : doc \in ModelDocs }
    \cup { <<FenceJson, JsonOf(DocGood), Fence>>,
           <<Fence, JsonOf(DocGood), Fence>>,
           <<Junk>> }

\* text[7:] when the text starts with the json code fence, then text[:-3]
\* when it ends with a code fence
StripFence(text) ==
    LET a == IF Len(text) > 0 /\ text[1] = FenceJson THEN Tail(text) ELSE text
    IN IF Len(a) > 0 /\ a[Len(a)] = Fence THEN SubSeq(a, 1, Len(a) - 1) ELSE a

\* json.loads: one JSON document and nothing else
JsonParses(text) == Len(text) = 1 /\ text[1].t = "json"

json_loads(text) == text[1].v

\* finish_reason the code takes for a safety block
SAFETY == 2

\* an external call raises, or returns; generate_content returns a response
OkCall == [raised |-> FALSE, parts |-> FALSE, candidates |-> <<>>, text |-> <<>>]

RaisedCall == [raised |-> TRUE, parts |-> FALSE, candidates |-> <<>>, text |-> <<>>]

ModelResponses ==
    { [raised |-> FALSE, parts |-> TRUE, candidates |-> <<1>>, text |-> t] :
        t \in ModelTexts }
    \cup { [raised |-> FALSE, parts |-> FALSE, candidates |-> c, text |-> <<>>] :
        c \in {<<>>, <<0>>, <<SAFETY>>, <<3>>} }

GenerateOutcomes == {RaisedCall} \cup ModelResponses

max_retries == 3

(***************************************************************************)
(* Model Client: transcribe_segment_with_gemini, its fixed results and     *)
(* what the model can answer to the segment prompt.                        *)
(***************************************************************************)
SegmentResult(d) == [kind |-> "dict", d |-> d]

Placeholder(transcription) ==
    SegmentResult([transcription |-> transcription, language |-> "Unknown",
                   gender |-> "Unknown", emotion |-> "Neutral", confidence |-> "0.0"])

NoContentResult == Placeholder("[Could not transcribe]")

ParseErrorResult == Placeholder("[Transcription error]")

ErrorResult == Placeholder("[Error: ...]")

SegDocGood ==
    SegmentResult([transcription |-> "salom", language |-> "Uzbek",
                   gender |-> "Male", emotion |-> "Happy", confidence |-> "0.95"])

SegDocPartial == SegmentResult([transcription |-> "salom"])

SegDocNonDict == [kind |-> "other", d |-> EmptyDict]

SegmentTexts ==
    { <<JsonOf(SegDocGood)>>, <<JsonOf(SegDocPartial)>>, <<JsonOf(SegDocNonDict)>>,
      <<FenceJson, JsonOf(SegDocGood), Fence>>, <<Junk>> }

SegmentOutcomes ==
    {RaisedCall}
    \cup { [raised |-> FALSE, parts |-> TRUE, candidates |-> <<1>>, text |-> t] :
            t \in SegmentTexts }
    \cup { [raised |-> FALSE, parts |-> FALSE, candidates |-> <<>>, text |-> <<>>] }

\* mutant: a response without content is passed on as the parsed result
transcribe_segment_with_gemini_RawNoContent(init_ok, upload_ok, response) ==
    IF ~init_ok \/ ~upload_ok \/ response.raised THEN ErrorResult
    ELSE IF ~response.parts THEN SegDocNonDict
    ELSE LET text == StripFence(response.text)
         IN IF JsonParses(text) THEN json_loads(text) ELSE ParseErrorResult

\* the value transcribe_segment_with_gemini returns, given what its three
\* external calls do
transcribe_segment_with_gemini(init_ok, upload_ok, response) ==
    IF ~init_ok \/ ~upload_ok \/ response.raised THEN ErrorResult
    ELSE IF ~response.parts THEN NoContentResult
    ELSE LET text == StripFence(response.text)
         IN IF JsonParses(text) THEN json_loads(text) ELSE ParseErrorResult


(***************************************************************************)
(* Strings that the code takes apart are sequences of lexemes: "/" is the  *)
(* path separator, a scheme ("http://", "file://", "blob:") is one lexeme, *)
(* and so are "?", "&", "d=", a percent escape, a file extension and any   *)
(* other run of characters.  A path is such a sequence too; a file system  *)
(* is the set of the paths of its files.                                   *)
(***************************************************************************)
StartsWith(s, prefix) ==
    Len(s) >= Len(prefix) /\ SubSeq(s, 1, Len(prefix)) = prefix

\* s[n:]
From(s, n) == SubSeq(s, n, Len(s))

\* the least index >= from at which s holds lexeme x, or Len(s) + 1
IndexFrom(s, x, from) ==
    LET hits == {i \in from..Len(s) : s[i] = x}
    IN IF hits = {} THEN Len(s) + 1 ELSE CHOOSE i \in hits : \A j \in hits : i <= j

\* the greatest index at which s holds lexeme x, or 0
LastIndex(s, x) ==
    LET hits == {i \in 1..Len(s) : s[i] = x}
    IN IF hits = {} THEN 0 ELSE CHOOSE i \in hits : \A j \in hits : i >= j

\* needle occurs in s as a contiguous run (needle in s)
Contains(s, needle) ==
    \E i \in 1..(Len(s) + 1) :
        i + Len(needle) - 1 <= Len(s) /\ SubSeq(s, i, i + Len(needle) - 1) = needle

\* urllib.parse.unquote: percent escapes become the characters they encode
UnquoteLexeme(x) == IF x = "%2F" THEN "/" ELSE IF x = "%20" THEN " " ELSE x

unquote(s) == [i \in 1..Len(s) |-> UnquoteLexeme(s[i])]

\* s.split('/')[-1]
Basename(s) == From(s, LastIndex(s, "/") + 1)

\* s.lstrip('/')
RECURSIVE LStripSlash(_)
LStripSlash(s) == IF s # <<>> /\ Head(s) = "/" THEN LStripSlash(Tail(s)) ELSE s

\* os.path.join(a, b): an absolute b replaces a
PathJoin(a, b) == IF b # <<>> /\ Head(b) = "/" THEN b ELSE a \o <<"/">> \o b

\* the process's working directory, against which relative paths resolve
Cwd == <<"/", "srv">>

AbsPath(path) == IF path # <<>> /\ Head(path) = "/" THEN path ELSE Cwd \o <<"/">> \o path

\* os.path.exists: a file, or a directory that holds one
IsDirIn(files, path) ==
    \E f \in files :
        /\ Len(f) > Len(path) /\ SubSeq(f, 1, Len(path)) = path
        /\ (f[Len(path) + 1] = "/" \/ path = <<"/">>)

Exists(files, path) ==
    /\ path # <<>>
    /\ (AbsPath(path) \in files \/ IsDirIn(files, AbsPath(path)))

\* the entries of directory dir: its files and its sub-directories
Children(files, dir) ==
    { SubSeq(f, 1, IndexFrom(f, "/", Len(dir) + 2) - 1) :
        f \in {g \in files : Len(g) > Len(dir) + 1 /\ StartsWith(g, dir \o <<"/">>)} }

\* glob.glob(dir/*needle*): the entries of dir whose name contains needle
GlobContaining(files, dir, needle) ==
    { c \in Children(files, dir) : Contains(From(c, Len(dir) + 2), needle) }

(***************************************************************************)
(* Audio Source Resolver: the local-filesystem part of download_audio.     *)
(* Each step yields the paths it may return (none: the step falls through; *)
(* several: glob's order decides) and the file-system probes it makes.     *)
(***************************************************************************)
LABEL_STUDIO_MEDIA_ROOT == <<"/", "home", "/", "media">>

DataRoot == <<"/", "mnt", "/", "mata", "/", "labelStudio">>

AudioExtensions == {".mp3", ".wav", ".ogg", ".flac", ".m4a"}

DigitLexemes == {"3", "7"}

Probe(op, arg) == [op |-> op, arg |-> arg]

StepResult(hits, fx) == [hits |-> hits, fx |-> fx]

\* the lexemes that hold a "/" character
SlashLexemes == {"/", "http://", "https://", "file://"}

IsBlob(url) == url # <<>> /\ Head(url) = "blob:"

\* re.sub(r'^https?://[^/]+', '', url)
StripHost(url) ==
    IF Len(url) >= 2 /\ url[1] \in {"http://", "https://"} /\ url[2] \notin SlashLexemes
    THEN From(url, IndexFrom(url, "/", 2))
    ELSE url

\* if url.startswith("/") and os.path.exists(url): return url
StepAbsolute(url, files) ==
    IF url # <<>> /\ Head(url) = "/"
    THEN StepResult(IF Exists(files, url) THEN {url} ELSE {}, <<Probe("exists", url)>>)
    ELSE StepResult({}, <<>>)

\* mutant: the upload pattern never matches
StepUpload_NeverMatches(url, files) == StepResult({}, <<>>)

\* re.search(r'/data/upload/(\d+)/(.+?)(?:\?|$)', url): where it matches
UploadMatchAt(url) ==
    LET hits == { i \in 1..Len(url) :
                    /\ i + 7 <= Len(url)
                    /\ SubSeq(url, i, i + 4) = <<"/", "data", "/", "upload", "/">>
                    /\ url[i + 5] \in DigitLexemes
                    /\ url[i + 6] = "/" }
    IN IF hits = {} THEN 0 ELSE CHOOSE i \in hits : \A j \in hits : i <= j

StepUpload(url, files) ==
    LET i == UploadMatchAt(url)
        project_id == url[i + 5]
        filename == unquote(SubSeq(url, i + 7, IndexFrom(url, "?", i + 8) - 1))
        dir == LABEL_STUDIO_MEDIA_ROOT \o <<"/", "upload", "/", project_id>>
        local_path == PathJoin(dir, filename)
        matches == GlobContaining(files, dir, Basename(filename))
    IN IF i = 0 THEN StepResult({}, <<>>)
       ELSE IF Exists(files, local_path)
       THEN StepResult({local_path}, <<Probe("exists", local_path)>>)
       ELSE StepResult(matches,
                <<Probe("exists", local_path), Probe("glob", dir \o <<"/", "*">> \o Basename(filename))>>)

\* re.search(r'/data/local-files/\?d=(.+?)(?:&|$)', url): where it matches
LocalFilesMatchAt(url) ==
    LET hits == { i \in 1..Len(url) :
                    /\ i + 7 <= Len(url)
                    /\ SubSeq(url, i, i + 6) =
                        <<"/", "data", "/", "local-files", "/", "?", "d=">> }
    IN IF hits = {} THEN 0 ELSE CHOOSE i \in hits : \A j \in hits : i <= j

StepLocalFiles(url, files) ==
    LET i == LocalFilesMatchAt(url)
        file_path == unquote(SubSeq(url, i + 7, IndexFrom(url, "&", i + 8) - 1))
    IN IF i = 0 THEN StepResult({}, <<>>)
       ELSE StepResult(IF Exists(files, file_path) THEN {file_path} ELSE {},
                       <<Probe("exists", file_path)>>)

\* re.search(r'([^/]+\.(?:mp3|wav|ogg|flac|m4a))(?:\?|$)', url): the ends
\* (positions of the extension) and the start of the leftmost match
FilenameEnds(url) ==
    { j \in 2..Len(url) :
        /\ url[j] \in AudioExtensions
        /\ url[j - 1] \notin SlashLexemes
        /\ (j = Len(url) \/ url[j + 1] = "?") }

FilenameMatch(url) ==
    LET starts == { k \in 1..Len(url) :
                      \E j \in FilenameEnds(url) :
                          k < j /\ \A m \in k..j : url[m] \notin SlashLexemes }
        k == CHOOSE a \in starts : \A b \in starts : a <= b
        ends == { j \in FilenameEnds(url) :
                    k < j /\ \A m \in k..j : url[m] \notin SlashLexemes }
        j == CHOOSE a \in ends : \A b \in ends : a >= b
    IN IF starts = {} THEN <<>> ELSE SubSeq(url, k, j)

\* mutant: the search of the upload directories finds nothing
StepFilenameSearch_NeverMatches(url, files) == StepResult({}, <<>>)

StepFilenameSearch(url, files) ==
    LET filename == unquote(FilenameMatch(url))
        upload == LABEL_STUDIO_MEDIA_ROOT \o <<"/", "upload">>
        project_dirs == Children(files, upload)
        found == UNION { GlobContaining(files, d, filename)
                            \cup (IF Exists(files, PathJoin(d, filename))
                                  THEN {PathJoin(d, filename)} ELSE {}) :
                         d \in project_dirs }
    IN IF FilenameMatch(url) = <<>> THEN StepResult({}, <<>>)
       ELSE StepResult(found,
                <<Probe("glob", upload \o <<"/", "*">>)>>
                \o (IF project_dirs = {} THEN <<>>
                    ELSE <<Probe("glob", <<"*">> \o filename)>>))

HasSchemeOrSlash(url) ==
    url # <<>> /\ Head(url) \in {"http://", "https://", "file://", "/"}

\* mutant: the bare-name step returns its candidate without looking
StepBareName_NoExistsCheck(url, files) ==
    LET local_path == DataRoot \o <<"/">> \o url
    IN IF HasSchemeOrSlash(url) THEN StepResult({}, <<>>)
       ELSE StepResult({local_path}, <<>>)

\* if not url.startswith(("http://", "https://", "file://", "/")):
StepBareName(url, files) ==
    LET local_path == DataRoot \o <<"/">> \o url
    IN IF HasSchemeOrSlash(url) THEN StepResult({}, <<>>)
       ELSE StepResult(IF Exists(files, local_path) THEN {local_path} ELSE {},
                       <<Probe("exists", local_path)>>)

\* the first path of paths_to_try that exists, with the probes made
RECURSIVE FirstExisting(_, _, _)
FirstExisting(paths, files, fx) ==
    IF paths = <<>> THEN StepResult({}, fx)
    ELSE IF Exists(files, Head(paths))
    THEN StepResult({Head(paths)}, Append(fx, Probe("exists", Head(paths))))
    ELSE FirstExisting(Tail(paths), files, Append(fx, Probe("exists", Head(paths))))

\* if url.startswith("/") and not url.startswith(("http://", "https://")):
StepRooted(url, files) ==
    IF url # <<>> /\ Head(url) = "/"
    THEN FirstExisting(<<url, DataRoot \o url, DataRoot \o <<"/">> \o LStripSlash(url)>>,
                       files, <<>>)
    ELSE StepResult({}, <<>>)

\* if url.startswith("file://"): local_path = url[7:]
StepFileUri(url, files) ==
    IF url # <<>> /\ Head(url) = "file://"
    THEN StepResult(IF Exists(files, Tail(url)) THEN {Tail(url)} ELSE {},
                    <<Probe("exists", Tail(url))>>)
    ELSE StepResult({}, <<>>)

LocalSteps(url, files) ==
    << StepAbsolute(url, files), StepUpload(url, files), StepLocalFiles(url, files),
       StepFilenameSearch(url, files), StepBareName(url, files),
       StepRooted(url, files), StepFileUri(url, files) >>

\* the steps in order up to the first that finds something: the paths that
\* step may return ({} when every step falls through), the number of the
\* step, and the probes made up to there
RECURSIVE ResolveFrom(_, _, _)
ResolveFrom(steps, n, fx) ==
    IF n > Len(steps) THEN [hits |-> {}, step |-> 0, fx |-> fx]
    ELSE IF steps[n].hits # {}
    THEN [hits |-> steps[n].hits, step |-> n, fx |-> fx \o steps[n].fx]
    ELSE ResolveFrom(steps, n + 1, fx \o steps[n].fx)

\* mutant: no early return, the last step that finds something wins
ResolveLocal_LastHitWins(url, files) ==
    LET steps == LocalSteps(StripHost(url), files)
        hitting == {n \in 1..Len(steps) : steps[n].hits # {}}
        last == CHOOSE n \in hitting : \A m \in hitting : m <= n
    IN IF hitting = {} THEN ResolveFrom(steps, 1, <<>>)
       ELSE [hits |-> steps[last].hits, step |-> last,
             fx |-> ResolveFrom(steps, last, <<>>).fx]

ResolveLocal(url, files) == ResolveFrom(LocalSteps(StripHost(url), files), 1, <<>>)

\* the URL the network step fetches
LABEL_STUDIO_URL == <<"http://", "localhost:8080">>

DownloadUrl(url) ==
    IF url # <<>> /\ Head(url) \in {"http://", "https://"} THEN url
    ELSE IF url # <<>> /\ Head(url) = "/" THEN LABEL_STUDIO_URL \o url
    ELSE LABEL_STUDIO_URL \o <<"/", "data", "/">> \o url

(***************************************************************************)
(* State.                                                                  *)
(***************************************************************************)
VARIABLES
    f_analysis,     \* formatter harness: the analysis result being formatted
    f_out,          \* formatter harness: the value returned by each call so far
    a_pc,           \* analyze_audio_with_gemini: where the call stands
    retry_count,    \* analyze_audio_with_gemini: its local retry_count
    a_ret,          \* analyze_audio_with_gemini: the value it returned
    a_trace,        \* history: the external calls it made, with their outcomes
    fs,             \* the file system: the paths of the files on disk
    api_key,        \* LABEL_STUDIO_API_KEY, fixed at start-up
    d_pc,           \* download_audio: where the call stands
    d_url,          \* download_audio: its argument
    d_temp,         \* download_audio: temp_path
    d_headers,      \* download_audio: the Authorization header, <<>> when unset
    d_ret,          \* download_audio: the path returned or the error raised
    d_trace,        \* history: the probes and network calls download_audio made
    tmp_count,      \* how many temporary files the process has created
    fs0,            \* history: the file system when the request arrived
    created,        \* history: the files the process has created
    request,        \* the request being served: its endpoint and its tasks
    pc,             \* the request handler: where it stands
    task_idx,       \* predict: position of the for loop in tasks
    audio_path,     \* the handler's audio_path, NoPath when unset
    segment_path,   \* transcribe_segment: segment_path, NoPath when None
    results,        \* predict: the results list
    reply,          \* what the handler answered
    p_trace,        \* history: the steps the handler took, with their outcome
    e_pc,           \* extract_audio_segment: where the call stands
    e_temp,         \* extract_audio_segment: its segment_path
    e_exc,          \* extract_audio_segment: the exception it raised, if any
    t_result        \* transcribe_segment: result

f_vars == <<f_analysis, f_out>>

a_vars == <<a_pc, retry_count, a_ret, a_trace>>

d_vars == <<d_pc, d_url, d_temp, d_headers, d_ret, d_trace>>

env_vars == <<fs, api_key, tmp_count, fs0, created>>

e_vars == <<e_pc, e_temp, e_exc>>

p_vars == <<request, pc, task_idx, audio_path, segment_path, results, reply,
            p_trace, t_result>>

vars == <<f_analysis, f_out, a_pc, retry_count, a_ret, a_trace,
          fs, api_key, d_pc, d_url, d_temp, d_headers, d_ret, d_trace, tmp_count,
          fs0, created, request, pc, task_idx, audio_path, segment_path, results,
          reply, p_trace, e_pc, e_temp, e_exc, t_result>>

(***************************************************************************)
(* Formatter harness: format_enhanced_predictions called on one analysis   *)
(* result, up to twice.                                                    *)
(***************************************************************************)
FormatInputs ==
    { Analysis("list", segs, s) :
        segs \in SegLists(MaxSegs), s \in Opt("summary_uzbek", SummaryVals) }
    \cup { Analysis(t, <<>>, s) :
        t \in {"absent", "null"}, s \in Opt("summary_uzbek", SummaryVals) }

FIdle ==
    /\ f_analysis = NonDictJson
    /\ f_out = <<>>

AIdle ==
    /\ a_pc = "idle"
    /\ retry_count = 0
    /\ a_ret = NonDictJson
    /\ a_trace = <<>>

NoPath == <<>>

Returned(path) == [ok |-> TRUE, path |-> path, status |-> 200]

Raised(status) == [ok |-> FALSE, path |-> NoPath, status |-> status]

DIdle ==
    /\ d_pc = "idle"
    /\ d_url = <<>>
    /\ d_temp = NoPath
    /\ d_headers = <<>>
    /\ d_ret = Raised(0)
    /\ d_trace = <<>>

EnvIdle ==
    /\ fs = {}
    /\ api_key = <<>>
    /\ tmp_count = 0
    /\ fs0 = {}
    /\ created = {}

NoRequest == [kind |-> "none", tasks |-> <<>>]

NoReply == [status |-> 0, results |-> <<>>, body |-> EmptyDict]

NoResult == [kind |-> "none", d |-> EmptyDict]

EIdle ==
    /\ e_pc = "idle"
    /\ e_temp = NoPath
    /\ e_exc = "none"

PIdle ==
    /\ request = NoRequest
    /\ pc = "idle"
    /\ task_idx = 0
    /\ audio_path = NoPath
    /\ segment_path = NoPath
    /\ results = <<>>
    /\ reply = NoReply
    /\ p_trace = <<>>
    /\ t_result = NoResult
    /\ EIdle

FInit ==
    /\ f_analysis \in FormatInputs
    /\ f_out = <<>>
    /\ AIdle
    /\ DIdle
    /\ EnvIdle
    /\ PIdle

FormatCall ==
    /\ Len(f_out) < 2
    /\ \E ids \in [1..Len(f_analysis.segments) -> RegionIds] :
        f_out' = Append(f_out, format_enhanced_predictions(f_analysis, ids))
    /\ UNCHANGED f_analysis
    /\ UNCHANGED <<a_vars, d_vars, env_vars, p_vars, e_vars>>

FNext == FormatCall

(***************************************************************************)
(* Model Client: analyze_audio_with_gemini, one action per external call.  *)
(***************************************************************************)
Event(call, outcome) == [call |-> call, outcome |-> outcome]

AReturn(value) ==
    /\ a_pc' = "returned"
    /\ a_ret' = value

\* mutant: the first parse failure already returns the error result
OnJSONDecodeError_NoRetry ==
    /\ retry_count' = retry_count + 1
    /\ AReturn(JsonErrorResult)

\* except json.JSONDecodeError
OnJSONDecodeError ==
    /\ retry_count' = retry_count + 1
    /\ IF retry_count + 1 >= max_retries
       THEN AReturn(JsonErrorResult)
       ELSE a_pc' = "loop" /\ UNCHANGED a_ret

\* mutant: the handler always goes back to the loop head
OnException_NoFinalReturn ==
    /\ retry_count' = retry_count + 1
    /\ a_pc' = "loop"
    /\ UNCHANGED a_ret

\* except Exception
OnException ==
    /\ retry_count' = retry_count + 1
    /\ IF retry_count + 1 >= max_retries
       THEN AReturn(ExceptionResult)
       ELSE a_pc' = "loop" /\ UNCHANGED a_ret

\* text = response.text.strip(); strip the fence; return json.loads(text)
ParseAndReturn(response) ==
    LET text == StripFence(response.text)
    IN IF JsonParses(text)
       THEN AReturn(json_loads(text)) /\ UNCHANGED retry_count
       ELSE OnJSONDecodeError

\* while retry_count < max_retries: ... ; raise HTTPException(500)
AnalyzeLoop ==
    /\ UNCHANGED <<f_vars, d_vars, env_vars, p_vars, e_vars>>
    /\ a_pc = "loop"
    /\ a_pc' = IF retry_count < max_retries THEN "init" ELSE "raised"
    /\ UNCHANGED <<retry_count, a_ret, a_trace>>

\* model = init_gemini()
AnalyzeInit ==
    /\ UNCHANGED <<f_vars, d_vars, env_vars, p_vars, e_vars>>
    /\ a_pc = "init"
    /\ \E ok \in BOOLEAN :
        /\ a_trace' = Append(a_trace, Event("init_gemini", IF ok THEN OkCall ELSE RaisedCall))
        /\ IF ok
           THEN a_pc' = "upload" /\ UNCHANGED <<retry_count, a_ret>>
           ELSE OnException

\* audio_file = genai.upload_file(audio_path, ...)
AnalyzeUpload ==
    /\ UNCHANGED <<f_vars, d_vars, env_vars, p_vars, e_vars>>
    /\ a_pc = "upload"
    /\ \E ok \in BOOLEAN :
        /\ a_trace' = Append(a_trace, Event("upload_file", IF ok THEN OkCall ELSE RaisedCall))
        /\ IF ok
           THEN a_pc' = "generate" /\ UNCHANGED <<retry_count, a_ret>>
           ELSE OnException

\* mutant: every finish reason is treated as a safety block
AnalyzeGenerate_RetryOnAnyReason ==
    /\ UNCHANGED <<f_vars, d_vars, env_vars, p_vars, e_vars>>
    /\ a_pc = "generate"
    /\ \E response \in GenerateOutcomes :
        /\ a_trace' = Append(a_trace, Event("generate_full", response))
        /\ IF response.raised THEN OnException
           ELSE IF response.parts THEN ParseAndReturn(response)
           ELSE IF Len(response.candidates) > 0 /\ response.candidates[1] # 0
           THEN /\ retry_count' = retry_count + 1
                /\ IF retry_count + 1 < max_retries
                   THEN a_pc' = "simple" /\ UNCHANGED a_ret
                   ELSE AReturn(get_fallback_response)
           ELSE AReturn(get_fallback_response) /\ UNCHANGED retry_count

\* mutant: the retry is also issued when the count reaches the limit
AnalyzeGenerate_RetryAtLimit ==
    /\ UNCHANGED <<f_vars, d_vars, env_vars, p_vars, e_vars>>
    /\ a_pc = "generate"
    /\ \E response \in GenerateOutcomes :
        /\ a_trace' = Append(a_trace, Event("generate_full", response))
        /\ IF response.raised THEN OnException
           ELSE IF response.parts THEN ParseAndReturn(response)
           ELSE IF Len(response.candidates) > 0 /\ response.candidates[1] # 0
           THEN IF response.candidates[1] = SAFETY
                THEN /\ retry_count' = retry_count + 1
                     /\ IF retry_count + 1 <= max_retries
                        THEN a_pc' = "simple" /\ UNCHANGED a_ret
                        ELSE AReturn(get_fallback_response)
                ELSE AReturn(get_fallback_response) /\ UNCHANGED retry_count
           ELSE AReturn(get_fallback_response) /\ UNCHANGED retry_count

\* response = model.generate_content([ENHANCED_ANALYSIS_PROMPT, audio_file])
\* and the handling of its response up to the simpler-prompt retry
AnalyzeGenerate ==
    /\ UNCHANGED <<f_vars, d_vars, env_vars, p_vars, e_vars>>
    /\ a_pc = "generate"
    /\ \E response \in GenerateOutcomes :
        /\ a_trace' = Append(a_trace, Event("generate_full", response))
        /\ IF response.raised THEN OnException
           ELSE IF response.parts THEN ParseAndReturn(response)
           ELSE IF Len(response.candidates) > 0 /\ response.candidates[1] # 0
           THEN IF response.candidates[1] = SAFETY
                THEN /\ retry_count' = retry_count + 1
                     /\ IF retry_count + 1 < max_retries
                        THEN a_pc' = "simple" /\ UNCHANGED a_ret
                        ELSE AReturn(get_fallback_response)
                ELSE AReturn(get_fallback_response) /\ UNCHANGED retry_count
           ELSE AReturn(get_fallback_response) /\ UNCHANGED retry_count

\* mutant: the retry's content is ignored and the fallback returned
AnalyzeSimple_AlwaysFallback ==
    /\ UNCHANGED <<f_vars, d_vars, env_vars, p_vars, e_vars>>
    /\ a_pc = "simple"
    /\ \E response \in GenerateOutcomes :
        /\ a_trace' = Append(a_trace, Event("generate_simple", response))
        /\ IF response.raised THEN OnException
           ELSE AReturn(get_fallback_response) /\ UNCHANGED retry_count

\* response = model.generate_content([simple_prompt, audio_file])
AnalyzeSimple ==
    /\ UNCHANGED <<f_vars, d_vars, env_vars, p_vars, e_vars>>
    /\ a_pc = "simple"
    /\ \E response \in GenerateOutcomes :
        /\ a_trace' = Append(a_trace, Event("generate_simple", response))
        /\ IF response.raised THEN OnException
           ELSE IF response.parts THEN ParseAndReturn(response)
           ELSE AReturn(get_fallback_response) /\ UNCHANGED retry_count

\* analyze_audio_with_gemini entered: max_retries = 3, retry_count = 0
AEntered ==
    /\ a_pc = "loop"
    /\ retry_count = 0
    /\ a_ret = NonDictJson
    /\ a_trace = <<>>

AInit == AEntered /\ FIdle /\ DIdle /\ EnvIdle /\ PIdle

ANext ==
    \/ AnalyzeLoop
    \/ AnalyzeInit
    \/ AnalyzeUpload
    \/ AnalyzeGenerate
    \/ AnalyzeSimple

(***************************************************************************)
(* Audio Source Resolver: download_audio, one action per stretch of code   *)
(* between two awaits.  Temporary files are created under /tmp, the        *)
(* platform default the handlers' clean-up code assumes.                   *)
(***************************************************************************)
\* tempfile.NamedTemporaryFile(delete=False, suffix=".mp3").name
TempPath(n) == <<"/", "tmp", "/", "tmp", ToString(n), ".mp3">>

\* the configured credential: none, a legacy token, a JWT refresh token
ApiKeys == {<<>>, <<"legacy-token">>, <<"eyJ", "refresh">>}

\* what POST /api/token/refresh/ can do: raise, answer with another status,
\* answer 200 without an access token, or answer 200 with one
RefreshOutcomes ==
    { [raised |-> TRUE, status |-> 0, access |-> <<>>],
      [raised |-> FALSE, status |-> 401, access |-> <<>>],
      [raised |-> FALSE, status |-> 200, access |-> <<>>],
      [raised |-> FALSE, status |-> 200, access |-> <<"eyJ", "access">>],
      [raised |-> FALSE, status |-> 200, access |-> <<"opaque-access">>] }

IsJwt(token) == token # <<>> /\ Head(token) = "eyJ"

\* the answer of the refresh exchange as a history event: "raised" or the
\* status code, followed by the access token of the body
RefreshAnswer(refresh) ==
    <<IF refresh.raised THEN "raised" ELSE ToString(refresh.status)>> \o refresh.access

\* get_access_token, given what the refresh exchange does
get_access_token(key, refresh) ==
    IF key = <<>> THEN <<>>
    ELSE IF IsJwt(key) /\ ~refresh.raised /\ refresh.status = 200 /\ refresh.access # <<>>
    THEN refresh.access
    ELSE key

\* mutant: every token is sent with the Token scheme
AuthorizationHeader_AlwaysToken(token) ==
    IF token = <<>> THEN <<>> ELSE <<"Token">> \o token

AuthorizationHeader(token) ==
    IF token = <<>> THEN <<>>
    ELSE IF IsJwt(token) THEN <<"Bearer">> \o token
    ELSE <<"Token">> \o token

\* an exception in flight: an HTTPException with its status, or another one
HTTPException(status) == [http |-> TRUE, status |-> status]

OtherException == [http |-> FALSE, status |-> 0]

\* mutant: every exception leaves download_audio wrapped as a 500
OuterHandler_WrapAll(exc) == 500

\* except HTTPException: raise / except Exception: raise HTTPException(500)
OuterHandler(exc) == IF exc.http THEN exc.status ELSE 500

\* from the entry of download_audio to its first await, or to its return
DownloadResolve ==
    /\ d_pc = "start"
    /\ IF IsBlob(d_url)
       THEN /\ d_pc' = "raised"
            /\ d_ret' = Raised(OuterHandler(HTTPException(400)))
            /\ UNCHANGED <<fs, tmp_count, created, d_temp, d_trace>>
       ELSE LET r == ResolveLocal(d_url, fs)
            IN IF r.hits # {}
               THEN /\ \E path \in r.hits :
                        d_ret' = Returned(path)
                    /\ d_pc' = "returned"
                    /\ d_trace' = d_trace \o r.fx
                    /\ UNCHANGED <<fs, tmp_count, created, d_temp>>
               ELSE /\ tmp_count' = tmp_count + 1
                    /\ d_temp' = TempPath(tmp_count + 1)
                    /\ fs' = fs \cup {TempPath(tmp_count + 1)}
                    /\ created' = created \cup {TempPath(tmp_count + 1)}
                    /\ d_trace' = d_trace \o r.fx
                                  \o <<Probe("mkstemp", TempPath(tmp_count + 1))>>
                    /\ d_pc' = "token"
                    /\ UNCHANGED d_ret
    /\ UNCHANGED <<d_url, d_headers, api_key, fs0>>
    /\ UNCHANGED <<f_vars, a_vars, p_vars, e_vars>>

\* token = await get_access_token(), and the headers built from it
DownloadToken ==
    /\ d_pc = "token"
    /\ \E refresh \in RefreshOutcomes :
        /\ d_headers' = AuthorizationHeader(get_access_token(api_key, refresh))
        /\ d_trace' = d_trace
                \o (IF IsJwt(api_key)
                    THEN <<Probe("refresh", LABEL_STUDIO_URL),
                           Probe("refreshed", RefreshAnswer(refresh))>>
                    ELSE <<>>)
                \o <<Probe("token", get_access_token(api_key, refresh))>>
    /\ d_pc' = "get"
    /\ UNCHANGED <<d_url, d_temp, d_ret, env_vars>>
    /\ UNCHANGED <<f_vars, a_vars, p_vars, e_vars>>

\* response = await client.get(download_url, ...), raise_for_status, the
\* write of the body, and the two handlers that unlink temp_path
DownloadGet ==
    /\ d_pc = "get"
    /\ \E outcome \in {"ok", "transport_error", "http_status_error", "write_error"} :
        /\ d_trace' = d_trace
                \o <<Probe("get", DownloadUrl(StripHost(d_url)))>>
                \o (IF outcome \in {"ok", "write_error"}
                    THEN <<Probe("write", d_temp)>> ELSE <<>>)
                \o (IF outcome # "ok" THEN <<Probe("unlink", d_temp)>> ELSE <<>>)
        /\ IF outcome = "ok"
           THEN /\ d_ret' = Returned(d_temp)
                /\ d_pc' = "returned"
                /\ UNCHANGED fs
           ELSE /\ fs' = fs \ {d_temp}
                /\ d_ret' = Raised(OuterHandler(OtherException))
                /\ d_pc' = "raised"
    /\ UNCHANGED <<d_url, d_temp, d_headers, api_key, tmp_count, fs0, created>>
    /\ UNCHANGED <<f_vars, a_vars, p_vars, e_vars>>

(***************************************************************************)
(* Segment Extractor: extract_audio_segment.  The call creates its output  *)
(* file, runs the transcoder and handles its failure without an await in   *)
(* between: one action.                                                    *)
(***************************************************************************)
\* what subprocess.run can do: exit 0, exit non-zero, run into the
\* 30-second timeout, or fail to start
TranscoderOutcomes == {"ok", "nonzero_exit", "timeout", "os_error"}

\* the handler that unlinks segment_path runs for the exceptions raised in
\* the try body, not for the one raised by the TimeoutExpired handler
Unlinked(outcome) == outcome \in {"nonzero_exit", "os_error"}

ExceptionOf(outcome) ==
    CASE outcome = "ok" -> "none"
      [] outcome = "nonzero_exit" -> "FFmpeg failed"
      [] outcome = "timeout" -> "FFmpeg timeout"
      [] outcome = "os_error" -> "OSError"

ExtractAudioSegment ==
    /\ e_pc = "start"
    /\ \E outcome \in TranscoderOutcomes :
        /\ e_temp' = TempPath(tmp_count + 1)
        /\ tmp_count' = tmp_count + 1
        /\ created' = created \cup {TempPath(tmp_count + 1)}
        /\ fs' = IF Unlinked(outcome) THEN fs \ {TempPath(tmp_count + 1)}
                 ELSE fs \cup {TempPath(tmp_count + 1)}
        /\ e_exc' = ExceptionOf(outcome)
        /\ e_pc' = IF outcome = "ok" THEN "returned" ELSE "raised"
    /\ UNCHANGED <<api_key, fs0>>
    /\ UNCHANGED <<f_vars, a_vars, d_vars, p_vars>>

(***************************************************************************)
(* Request handlers: predict and transcribe_segment.                       *)
(***************************************************************************)
\* bound on the number of tasks of one predict request
MaxTasks == 2

EmptyPrediction ==
    [result |-> <<>>, score |-> "0.0", model_version |-> "gemini-1.5-flash-enhanced"]

\* an element of results, with the task it was appended for (history)
Entry(task, prediction) == [task |-> task, prediction |-> prediction]

Step(task, step, ok) == [task |-> task, step |-> step, ok |-> ok]

\* lexemes that begin with the characters tmp
TmpPrefixed == {"tmp"}

\* audio_path.startswith("/tmp")
StartsWithTmp(path) == Len(path) >= 2 /\ path[1] = "/" /\ path[2] \in TmpPrefixed

\* if os.path.exists(audio_path) and audio_path.startswith("/tmp"): os.unlink
CleanupAudio(files, path) ==
    IF Exists(files, path) /\ StartsWithTmp(path) THEN files \ {path} ELSE files

\* if segment_path and os.path.exists(segment_path): os.unlink(segment_path)
CleanupSegment(files, path) ==
    IF path # NoPath /\ Exists(files, path) THEN files \ {path} ELSE files

\* audio_path = await download_audio(url): the call is entered
CallDownload(url) ==
    /\ d_pc' = "start"
    /\ d_url' = url
    /\ d_temp' = NoPath
    /\ d_headers' = <<>>
    /\ d_ret' = Raised(0)
    /\ d_trace' = <<>>

\* the call of download_audio is over: its locals are gone
ReturnFromDownload ==
    /\ d_pc' = "idle"
    /\ d_url' = <<>>
    /\ d_temp' = NoPath
    /\ d_headers' = <<>>
    /\ d_ret' = Raised(0)
    /\ d_trace' = <<>>

\* analysis = analyze_audio_with_gemini(audio_path): the call is entered
CallAnalyze ==
    /\ a_pc' = "loop"
    /\ retry_count' = 0
    /\ a_ret' = NonDictJson
    /\ a_trace' = <<>>

\* request validation, results = []
PredictEnter ==
    /\ pc = "p_entry"
    /\ IF request.tasks = <<>>
       THEN /\ reply' = [status |-> 422, results |-> <<>>, body |-> EmptyDict]
            /\ pc' = "done"
            /\ UNCHANGED task_idx
       ELSE /\ task_idx' = 1
            /\ pc' = "p_task"
            /\ UNCHANGED reply
    /\ UNCHANGED <<request, audio_path, segment_path, results, p_trace, t_result>>
    /\ UNCHANGED <<f_vars, a_vars, d_vars, e_vars, env_vars>>

\* for task in tasks: up to the call of download_audio; after the last
\* task, return {"results": results}
PredictTask ==
    /\ pc = "p_task"
    /\ IF task_idx > Len(request.tasks)
       THEN /\ reply' = [status |-> 200, results |-> results, body |-> EmptyDict]
            /\ pc' = "done"
            /\ UNCHANGED <<task_idx, d_vars>>
       ELSE IF request.tasks[task_idx].audio = <<>>
       THEN /\ task_idx' = task_idx + 1
            /\ UNCHANGED <<pc, reply, d_vars>>
       ELSE /\ CallDownload(request.tasks[task_idx].audio)
            /\ pc' = "p_download"
            /\ UNCHANGED <<task_idx, reply>>
    /\ UNCHANGED <<request, audio_path, segment_path, results, p_trace, t_result>>
    /\ UNCHANGED <<f_vars, a_vars, e_vars, env_vars>>

\* download_audio has returned or raised: except Exception appends the
\* empty prediction, otherwise analyze_audio_with_gemini is entered
PredictDownloaded ==
    /\ pc = "p_download"
    /\ d_pc \in {"returned", "raised"}
    /\ ReturnFromDownload
    /\ IF d_ret.ok
       THEN /\ audio_path' = d_ret.path
            /\ p_trace' = Append(p_trace, Step(task_idx, "resolve", TRUE))
            /\ CallAnalyze
            /\ pc' = "p_analyze"
            /\ UNCHANGED <<results, task_idx>>
       ELSE /\ results' = Append(results, Entry(task_idx, EmptyPrediction))
            /\ p_trace' = Append(p_trace, Step(task_idx, "resolve", FALSE))
            /\ task_idx' = task_idx + 1
            /\ pc' = "p_task"
            /\ UNCHANGED <<audio_path, a_vars>>
    /\ UNCHANGED <<request, segment_path, reply, t_result>>
    /\ UNCHANGED <<f_vars, e_vars, env_vars>>

\* the outcome of the inner try body of predict: the entries appended to
\* results and the steps taken, up to the finally clause
TryBody(analysis, raised, ids) ==
    IF raised
    THEN [entries |-> <<EmptyPrediction>>,
          steps |-> <<"analyze">>, failed |-> TRUE]
    ELSE IF FormatRaises(analysis)
    THEN [entries |-> <<EmptyPrediction>>,
          steps |-> <<"analyze", "format">>, failed |-> TRUE]
    ELSE IF analysis.segT = "null"
    THEN [entries |-> <<format_enhanced_predictions(analysis, ids), EmptyPrediction>>,
          steps |-> <<"analyze", "format", "log">>, failed |-> TRUE]
    ELSE [entries |-> <<format_enhanced_predictions(analysis, ids)>>,
          steps |-> <<"analyze", "format", "log">>, failed |-> FALSE]

\* the steps of one try body as history events: the last one is the one
\* that raised when the body failed, and the finally clause follows
StepsOf(task, body) ==
    [k \in 1..Len(body.steps) |->
        Step(task, body.steps[k], ~(body.failed /\ k = Len(body.steps)))]
    \o <<Step(task, "cleanup", TRUE)>>

\* mutant: an exception in a task ends the loop
AfterTask_AbortOnError(body) == IF body.failed THEN Len(request.tasks) + 1 ELSE task_idx + 1

\* mutant: the first task is taken up again once, after the second one
AfterTask_BackToFirst(body) ==
    IF task_idx = 2
       /\ Cardinality({k \in 1..Len(p_trace) :
                         p_trace[k].task = 1 /\ p_trace[k].step = "resolve"}) = 1
    THEN 1 ELSE task_idx + 1

\* the for loop goes on with the next task, whatever the task did
AfterTask(body) == task_idx + 1

\* analyze_audio_with_gemini has returned: format_enhanced_predictions,
\* results.append, the three prints, the finally clause and the handler
PredictFormat ==
    /\ pc = "p_analyze"
    /\ a_pc \in {"returned", "raised"}
    /\ \E ids \in [1..(IF HasSegments(a_ret) THEN Len(a_ret.segments) ELSE 0) -> RegionIds] :
        LET body == TryBody(a_ret, a_pc = "raised", ids)
        IN /\ results' = results \o [k \in 1..Len(body.entries) |->
                                        Entry(task_idx, body.entries[k])]
           /\ p_trace' = p_trace \o StepsOf(task_idx, body)
           /\ task_idx' = AfterTask(body)
    /\ fs' = CleanupAudio(fs, audio_path)
    /\ pc' = "p_task"
    /\ a_pc' = "idle"
    /\ retry_count' = 0
    /\ a_ret' = NonDictJson
    /\ a_trace' = <<>>
    /\ UNCHANGED <<request, audio_path, segment_path, reply, t_result>>
    /\ UNCHANGED <<api_key, tmp_count, fs0, created>>
    /\ UNCHANGED <<f_vars, d_vars, e_vars>>

\* mutant: the handler answers a failure with an empty success response
InternalError_Swallowed == [status |-> 200, results |-> <<>>, body |-> EmptyDict]

InternalError == [status |-> 500, results |-> <<>>, body |-> EmptyDict]

\* audio_path = None; segment_path = None; await download_audio(...)
TranscribeEnter ==
    /\ pc = "t_entry"
    /\ CallDownload(request.audio_url)
    /\ pc' = "t_download"
    /\ UNCHANGED <<request, task_idx, audio_path, segment_path, results, reply,
                   p_trace, t_result>>
    /\ UNCHANGED <<f_vars, a_vars, e_vars, env_vars>>

\* download_audio has returned or raised: when it raised, the handler
\* answers 500 and the finally clause finds both paths unset
TranscribeDownloaded ==
    /\ pc = "t_download"
    /\ d_pc \in {"returned", "raised"}
    /\ ReturnFromDownload
    /\ IF d_ret.ok
       THEN /\ audio_path' = d_ret.path
            /\ p_trace' = Append(p_trace, Step(1, "resolve", TRUE))
            /\ e_pc' = "start"
            /\ pc' = "t_extract"
            /\ UNCHANGED reply
       ELSE /\ p_trace' = p_trace \o <<Step(1, "resolve", FALSE), Step(1, "cleanup", TRUE)>>
            /\ reply' = InternalError
            /\ pc' = "done"
            /\ UNCHANGED <<audio_path, e_pc>>
    /\ UNCHANGED <<request, task_idx, segment_path, results, t_result>>
    /\ UNCHANGED <<e_temp, e_exc>>
    /\ UNCHANGED <<f_vars, a_vars, env_vars>>

\* extract_audio_segment has returned or raised: when it raised,
\* segment_path is still None in the finally clause
TranscribeExtracted ==
    /\ pc = "t_extract"
    /\ e_pc \in {"returned", "raised"}
    /\ e_pc' = "idle"
    /\ IF e_pc = "returned"
       THEN /\ segment_path' = e_temp
            /\ p_trace' = Append(p_trace, Step(1, "extract", TRUE))
            /\ pc' = "t_model"
            /\ UNCHANGED <<reply, fs>>
       ELSE /\ p_trace' = p_trace \o <<Step(1, "extract", FALSE), Step(1, "cleanup", TRUE)>>
            /\ reply' = InternalError
            /\ fs' = CleanupSegment(CleanupAudio(fs, audio_path), segment_path)
            /\ pc' = "done"
            /\ UNCHANGED segment_path
    /\ UNCHANGED <<request, task_idx, audio_path, results, t_result>>
    /\ UNCHANGED <<e_temp, e_exc>>
    /\ UNCHANGED <<api_key, tmp_count, fs0, created>>
    /\ UNCHANGED <<f_vars, a_vars, d_vars>>

\* result = transcribe_segment_with_gemini(segment_path)
TranscribeModel ==
    /\ pc = "t_model"
    /\ \E init_ok \in BOOLEAN, upload_ok \in BOOLEAN, response \in SegmentOutcomes :
        /\ t_result' = transcribe_segment_with_gemini(init_ok, upload_ok, response)
        /\ a_trace' =
            <<Event("init_gemini", IF init_ok THEN OkCall ELSE RaisedCall)>>
            \o (IF init_ok
                THEN <<Event("upload_file", IF upload_ok THEN OkCall ELSE RaisedCall)>>
                ELSE <<>>)
            \o (IF init_ok /\ upload_ok
                THEN <<Event("generate_segment", response)>> ELSE <<>>)
    /\ pc' = "t_respond"
    /\ UNCHANGED <<a_pc, retry_count, a_ret>>
    /\ UNCHANGED <<request, task_idx, audio_path, segment_path, results, reply, p_trace>>
    /\ UNCHANGED <<f_vars, d_vars, e_vars, env_vars>>

\* SegmentTranscribeResponse(transcription=result.get("transcription", ""), ...)
SegmentTranscribeResponse(d) ==
    [transcription |-> Get(d, "transcription", ""),
     language |-> Get(d, "language", "Unknown"),
     gender |-> Get(d, "gender", "Unknown"),
     emotion |-> Get(d, "emotion", "Neutral"),
     confidence |-> Get(d, "confidence", "0.0")]

\* the response is built (result.get raises on a value that is no dict),
\* then the finally clause removes both files
TranscribeRespond ==
    /\ pc = "t_respond"
    /\ IF t_result.kind = "dict"
       THEN /\ reply' = [status |-> 200, results |-> <<>>,
                         body |-> SegmentTranscribeResponse(t_result.d)]
            /\ p_trace' = p_trace \o <<Step(1, "analyze", TRUE), Step(1, "respond", TRUE),
                                       Step(1, "cleanup", TRUE)>>
       ELSE /\ reply' = InternalError
            /\ p_trace' = p_trace \o <<Step(1, "analyze", TRUE), Step(1, "respond", FALSE),
                                       Step(1, "cleanup", TRUE)>>
    /\ fs' = CleanupSegment(CleanupAudio(fs, audio_path), segment_path)
    /\ pc' = "done"
    /\ UNCHANGED <<request, task_idx, audio_path, segment_path, results, t_result>>
    /\ UNCHANGED <<api_key, tmp_count, fs0, created>>
    /\ UNCHANGED <<f_vars, a_vars, d_vars, e_vars>>

(***************************************************************************)
(* The files and the references the resolver is exercised with: the        *)
(* reference shapes of tests/test_enhanced.py and of the resolver's own    *)
(* comments, and for each shape a file it can resolve to.                  *)
(***************************************************************************)
UploadedCall == LABEL_STUDIO_MEDIA_ROOT \o <<"/", "upload", "/", "3", "/", "call", ".mp3">>

UploadedHashedTest ==
    LABEL_STUDIO_MEDIA_ROOT \o <<"/", "upload", "/", "7", "/", "a1b2-", "test", ".mp3">>

\* an upload of another project whose name contains call.mp3
UploadedHashedCall ==
    LABEL_STUDIO_MEDIA_ROOT \o <<"/", "upload", "/", "7", "/", "a1b2-", "call", ".mp3">>

RootTest == DataRoot \o <<"/", "test", ".mp3">>

TmpRec == <<"/", "tmp", "/", "rec", ".mp3">>

\* the last one is a file at the very path the upload reference spells
LocalFiles == {UploadedCall, UploadedHashedTest, UploadedHashedCall, RootTest, TmpRec,
               <<"/", "data", "/", "upload", "/", "3", "/", "call", ".mp3">>}

FileSystems == SUBSET LocalFiles

RefUpload == <<"/", "data", "/", "upload", "/", "3", "/", "call", ".mp3">>

RefUploadWithHost == <<"http://", "localhost:8080">> \o RefUpload

RefUploadQuery ==
    <<"/", "data", "/", "upload", "/", "7", "/", "test", ".mp3", "?", "token">>

RefLocalFiles ==
    <<"/", "data", "/", "local-files", "/", "?", "d=",
      "mnt", "%2F", "mata", "%2F", "labelStudio", "%2F", "test", ".mp3">>

\* the same query with the absolute path of the file, percent-encoded
RefLocalFilesAbs ==
    <<"/", "data", "/", "local-files", "/", "?", "d=",
      "%2F", "mnt", "%2F", "mata", "%2F", "labelStudio", "%2F", "test", ".mp3">>

RefBare == <<"test", ".mp3">>

RefRooted == <<"/", "test", ".mp3">>

RefFileUri == <<"file://">> \o RootTest

RefRemote == <<"https://", "cdn.example.com", "/", "audio", "/", "x", ".wav">>

RefBlob == <<"blob:", "http://", "localhost:8080", "/", "a1b2-">>

Refs == {RefUpload, RefUploadWithHost, RefUploadQuery, RefLocalFiles, RefLocalFilesAbs, RefBare,
         RefRooted, RefFileUri, RefRemote, RefBlob, TmpRec}

\* download_audio(url) entered
DEntered(url) ==
    /\ d_pc = "start"
    /\ d_url = url
    /\ d_temp = NoPath
    /\ d_headers = <<>>
    /\ d_ret = Raised(0)
    /\ d_trace = <<>>

DInit ==
    /\ \E url \in Refs : DEntered(url)
    /\ fs \in FileSystems
    /\ fs0 = fs
    /\ api_key \in ApiKeys
    /\ tmp_count = 0
    /\ created = {}
    /\ FIdle
    /\ AIdle
    /\ PIdle

DNext ==
    \/ DownloadResolve
    \/ DownloadToken
    \/ DownloadGet

(***************************************************************************)
(* One request served from start to end: a predict batch of at most        *)
(* MaxTasks tasks, or one transcribe_segment request.                      *)
(***************************************************************************)
TaskRefs == {TmpRec, RefUpload, RefRemote, RefBlob}

\* a task: its data.audio, <<>> when the task carries none
Tasks == {[audio |-> ref] : ref \in TaskRefs \cup {<<>>}}

Requests ==
    { [kind |-> "predict", tasks |-> tasks, audio_url |-> <<>>] :
        tasks \in UNION {[1..n -> Tasks] : n \in 0..MaxTasks} }
    \cup { [kind |-> "transcribe_segment", tasks |-> <<>>, audio_url |-> ref] :
            ref \in TaskRefs }

\* the disk when the request arrives: a recording under /tmp and an upload
\* under the media root, so that TmpRec and RefUpload resolve locally and
\* RefRemote goes to the network
RequestFileSystems == {{TmpRec, UploadedCall}}

Init ==
    /\ request \in Requests
    /\ pc = IF request.kind = "predict" THEN "p_entry" ELSE "t_entry"
    /\ task_idx = 0
    /\ audio_path = NoPath
    /\ segment_path = NoPath
    /\ results = <<>>
    /\ reply = NoReply
    /\ p_trace = <<>>
    /\ t_result = NoResult
    /\ EIdle
    /\ fs \in RequestFileSystems
    /\ fs0 = fs
    /\ api_key \in ApiKeys
    /\ tmp_count = 0
    /\ created = {}
    /\ FIdle
    /\ AIdle
    /\ DIdle

Next ==
    \/ PredictEnter
    \/ PredictTask
    \/ PredictDownloaded
    \/ PredictFormat
    \/ TranscribeEnter
    \/ TranscribeDownloaded
    \/ TranscribeExtracted
    \/ TranscribeModel
    \/ TranscribeRespond
    \/ ExtractAudioSegment
    \/ DownloadResolve
    \/ DownloadToken
    \/ DownloadGet
    \/ AnalyzeLoop
    \/ AnalyzeInit
    \/ AnalyzeUpload
    \/ AnalyzeGenerate
    \/ AnalyzeSimple

(***************************************************************************)
(* The simple backend (src/src/simple_api.py): its download_audio, its     *)
(* one-shot model client, its formatter and its predict handler.  The      *)
(* handler's state lives in the same variables as the enhanced handler's.  *)
(***************************************************************************)
\* the local look-ups of download_audio: the reference under the data root,
\* then the path of a file:// reference; fx lists the probes made
SimpleResolveLocal(url, files) ==
    LET rooted == url # <<>> /\ Head(url) = "/"
        first == DataRoot \o url
        second == DataRoot \o <<"/">> \o LStripSlash(url)
        uri == url # <<>> /\ Head(url) = "file://"
    IN IF rooted /\ Exists(files, first)
       THEN [found |-> TRUE, path |-> first, fx |-> <<Probe("exists", first)>>]
       ELSE IF rooted /\ Exists(files, second)
       THEN [found |-> TRUE, path |-> second,
             fx |-> <<Probe("exists", first), Probe("exists", second)>>]
       ELSE IF uri /\ Exists(files, Tail(url))
       THEN [found |-> TRUE, path |-> Tail(url), fx |-> <<Probe("exists", Tail(url))>>]
       ELSE [found |-> FALSE, path |-> NoPath,
             fx |-> IF rooted THEN <<Probe("exists", first), Probe("exists", second)>>
                    ELSE IF uri THEN <<Probe("exists", Tail(url))>> ELSE <<>>]

\* from the entry of download_audio to its first await, or to its return
SimpleDownloadResolve ==
    /\ d_pc = "start"
    /\ LET r == SimpleResolveLocal(d_url, fs)
       IN IF r.found
          THEN /\ d_ret' = Returned(r.path)
               /\ d_pc' = "returned"
               /\ d_trace' = d_trace \o r.fx
               /\ UNCHANGED <<fs, tmp_count, created, d_temp>>
          ELSE /\ tmp_count' = tmp_count + 1
               /\ d_temp' = TempPath(tmp_count + 1)
               /\ fs' = fs \cup {TempPath(tmp_count + 1)}
               /\ created' = created \cup {TempPath(tmp_count + 1)}
               /\ d_trace' = d_trace \o r.fx \o <<Probe("mkstemp", TempPath(tmp_count + 1))>>
               /\ d_pc' = "token"
               /\ UNCHANGED d_ret
    /\ UNCHANGED <<d_url, d_headers, api_key, fs0>>
    /\ UNCHANGED <<f_vars, a_vars, p_vars, e_vars>>

\* token = await get_access_token(), and the headers built from it
SimpleDownloadToken ==
    /\ d_pc = "token"
    /\ \E refresh \in RefreshOutcomes :
        /\ d_headers' = AuthorizationHeader(get_access_token(api_key, refresh))
        /\ d_trace' = d_trace
                \o (IF IsJwt(api_key)
                    THEN <<Probe("refresh", LABEL_STUDIO_URL),
                           Probe("refreshed", RefreshAnswer(refresh))>>
                    ELSE <<>>)
                \o <<Probe("token", get_access_token(api_key, refresh))>>
    /\ d_pc' = "get"
    /\ UNCHANGED <<d_url, d_temp, d_ret, env_vars>>
    /\ UNCHANGED <<f_vars, a_vars, p_vars, e_vars>>

\* response = await client.get(url, ...), raise_for_status, the write of
\* the body; the only handler wraps the exception and touches no file
SimpleDownloadGet ==
    /\ d_pc = "get"
    /\ \E outcome \in {"ok", "transport_error", "http_status_error", "write_error"} :
        /\ d_trace' = d_trace
                \o <<Probe("get", DownloadUrl(d_url))>>
                \o (IF outcome \in {"ok", "write_error"}
                    THEN <<Probe("write", d_temp)>> ELSE <<>>)
        /\ IF outcome = "ok"
           THEN /\ d_ret' = Returned(d_temp)
                /\ d_pc' = "returned"
           ELSE /\ d_ret' = Raised(500)
                /\ d_pc' = "raised"
    /\ UNCHANGED <<d_url, d_temp, d_headers, env_vars>>
    /\ UNCHANGED <<f_vars, a_vars, p_vars, e_vars>>

\* what the one-shot analyze_audio_with_gemini hands to predict: a parsed
\* JSON object, the default structure of its JSONDecodeError handler, a
\* parsed JSON document that is no object, or an HTTPException
SimpleDefaultStructure ==
    [transcription |-> << [text |-> "Audio processed but could not parse response",
                           start_time |-> 0, end_time |-> 1] >>,
     language |-> "unknown", speakers |-> <<>>,
     summary |-> "Analysis failed", duration |-> 0]

SimpleDocGood ==
    [transcription |-> << [text |-> "salom", start_time |-> 0, end_time |-> 5,
                           speaker |-> "Speaker 1"] >>,
     language |-> "Uzbek",
     speakers |-> << [id |-> "Speaker 1", gender |-> "male", emotion |-> "neutral"] >>,
     summary |-> "Qisqa xulosa", duration |-> 120]

SimpleAnalyzeOutcomes ==
    { [raised |-> FALSE, dict |-> TRUE, d |-> doc] :
        doc \in {SimpleDocGood, SimpleDefaultStructure, EmptyDict} }
    \cup { [raised |-> FALSE, dict |-> FALSE, d |-> EmptyDict],
           [raised |-> TRUE, dict |-> FALSE, d |-> EmptyDict] }

SimpleChoices(name, value) ==
    [value |-> [choices |-> <<value>>], from_name |-> name, to_name |-> "audio",
     type |-> "choices", origin |-> "prediction"]

\* "if analysis.get(k):" for a list-valued key
NonEmptyList(d, k) == k \in DOMAIN d /\ Len(d[k]) > 0

RECURSIVE SpeakerEntries(_)
SpeakerEntries(speakers) ==
    IF speakers = <<>> THEN <<>>
    ELSE (IF Truthy(Head(speakers), "gender")
          THEN <<SimpleChoices("gender", Head(speakers)["gender"])>> ELSE <<>>)
         \o (IF Truthy(Head(speakers), "emotion")
             THEN <<SimpleChoices("emotion", Head(speakers)["emotion"])>> ELSE <<>>)
         \o SpeakerEntries(Tail(speakers))

format_label_studio_predictions(analysis) ==
    [result |->
        (IF NonEmptyList(analysis, "transcription")
         THEN [k \in 1..Len(analysis["transcription"]) |->
                 [value |-> [start |-> Get(analysis["transcription"][k], "start_time", 0),
                             end |-> Get(analysis["transcription"][k], "end_time", 0),
                             text |-> <<Get(analysis["transcription"][k], "text", "")>>,
                             channel |-> 0],
                  from_name |-> "transcription", to_name |-> "audio",
                  type |-> "textarea", origin |-> "prediction"]]
         ELSE <<>>)
        \o (IF Truthy(analysis, "language")
            THEN <<SimpleChoices("language", analysis["language"])>> ELSE <<>>)
        \o (IF NonEmptyList(analysis, "speakers")
            THEN SpeakerEntries(analysis["speakers"]) ELSE <<>>)
        \o (IF Truthy(analysis, "summary")
            THEN << [value |-> [text |-> <<analysis["summary"]>>],
                     from_name |-> "summary", to_name |-> "audio",
                     type |-> "textarea", origin |-> "prediction"] >>
            ELSE <<>>),
     score |-> "0.95", model_version |-> "gemini-1.5-flash"]

SimpleEmptyPrediction ==
    [result |-> <<>>, score |-> "0.0", model_version |-> "gemini-1.5-flash"]

\* request validation, results = []
SimplePredictEnter ==
    /\ pc = "s_entry"
    /\ IF request.tasks = <<>>
       THEN /\ reply' = [status |-> 422, results |-> <<>>, body |-> EmptyDict]
            /\ pc' = "done"
            /\ UNCHANGED task_idx
       ELSE /\ task_idx' = 1
            /\ pc' = "s_task"
            /\ UNCHANGED reply
    /\ UNCHANGED <<request, audio_path, segment_path, results, p_trace, t_result>>
    /\ UNCHANGED <<f_vars, a_vars, d_vars, e_vars, env_vars>>

\* for task in tasks: up to the call of download_audio; after the last
\* task, return {"results": results}
SimplePredictTask ==
    /\ pc = "s_task"
    /\ IF task_idx > Len(request.tasks)
       THEN /\ reply' = [status |-> 200, results |-> results, body |-> EmptyDict]
            /\ pc' = "done"
            /\ UNCHANGED <<task_idx, d_vars>>
       ELSE IF request.tasks[task_idx].audio = <<>>
       THEN /\ task_idx' = task_idx + 1
            /\ UNCHANGED <<pc, reply, d_vars>>
       ELSE /\ CallDownload(request.tasks[task_idx].audio)
            /\ pc' = "s_download"
            /\ UNCHANGED <<task_idx, reply>>
    /\ UNCHANGED <<request, audio_path, segment_path, results, p_trace, t_result>>
    /\ UNCHANGED <<f_vars, a_vars, e_vars, env_vars>>

\* download_audio has returned or raised: except Exception appends the
\* empty prediction, otherwise the inner try is entered
SimplePredictDownloaded ==
    /\ pc = "s_download"
    /\ d_pc \in {"returned", "raised"}
    /\ ReturnFromDownload
    /\ IF d_ret.ok
       THEN /\ audio_path' = d_ret.path
            /\ p_trace' = Append(p_trace, Step(task_idx, "resolve", TRUE))
            /\ pc' = "s_analyze"
            /\ UNCHANGED <<results, task_idx>>
       ELSE /\ results' = Append(results, Entry(task_idx, SimpleEmptyPrediction))
            /\ p_trace' = Append(p_trace, Step(task_idx, "resolve", FALSE))
            /\ task_idx' = task_idx + 1
            /\ pc' = "s_task"
            /\ UNCHANGED audio_path
    /\ UNCHANGED <<request, segment_path, reply, t_result>>
    /\ UNCHANGED <<f_vars, a_vars, e_vars, env_vars>>

\* the inner try of predict: analyze_audio_with_gemini, the formatter and
\* results.append; its finally clause, which unlinks audio_path when it
\* exists (os.unlink raises on a directory); and the handler
SimplePredictAnalyze ==
    /\ pc = "s_analyze"
    /\ \E outcome \in SimpleAnalyzeOutcomes :
        LET body_ok == ~outcome.raised /\ outcome.dict
            unlink_ok == Exists(fs, audio_path) => audio_path \in fs
        IN /\ results' = results
                \o (IF body_ok
                    THEN <<Entry(task_idx, format_label_studio_predictions(outcome.d))>>
                    ELSE <<>>)
                \o (IF ~body_ok \/ ~unlink_ok
                    THEN <<Entry(task_idx, SimpleEmptyPrediction)>> ELSE <<>>)
           /\ p_trace' = p_trace
                \o <<Step(task_idx, "analyze", ~outcome.raised)>>
                \o (IF outcome.raised THEN <<>> ELSE <<Step(task_idx, "format", outcome.dict)>>)
                \o <<Step(task_idx, "cleanup", unlink_ok)>>
    /\ fs' = fs \ {audio_path}
    /\ task_idx' = task_idx + 1
    /\ pc' = "s_task"
    /\ UNCHANGED <<request, audio_path, segment_path, reply, t_result>>
    /\ UNCHANGED <<api_key, tmp_count, fs0, created>>
    /\ UNCHANGED <<f_vars, a_vars, d_vars, e_vars>>

\* the references of the simple backend's tasks: a path under the data
\* root, a file:// reference, a bare name and a remote URL
SimpleTaskRefs == {RefRooted, RefFileUri, RefBare, RefRemote}

SimpleRequests ==
    { [kind |-> "predict", audio_url |-> <<>>, tasks |-> tasks] :
        tasks \in UNION {[1..n -> {[audio |-> ref] : ref \in SimpleTaskRefs \cup {<<>>}}] :
                            n \in 0..MaxTasks} }

SInit ==
    /\ request \in SimpleRequests
    /\ pc = "s_entry"
    /\ task_idx = 0
    /\ audio_path = NoPath
    /\ segment_path = NoPath
    /\ results = <<>>
    /\ reply = NoReply
    /\ p_trace = <<>>
    /\ t_result = NoResult
    /\ EIdle
    /\ fs \in {{RootTest}, {}}
    /\ fs0 = fs
    /\ api_key \in ApiKeys
    /\ tmp_count = 0
    /\ created = {}
    /\ FIdle
    /\ AIdle
    /\ DIdle

SNext ==
    \/ SimplePredictEnter
    \/ SimplePredictTask
    \/ SimplePredictDownloaded
    \/ SimplePredictAnalyze
    \/ SimpleDownloadResolve
    \/ SimpleDownloadToken
    \/ SimpleDownloadGet

(***************************************************************************)
(* Specifications.                                                         *)
(***************************************************************************)
\* the formatter called on an arbitrary analysis result
SpecFormat == FInit /\ [][FNext]_vars

\* one call of analyze_audio_with_gemini against an arbitrary model
SpecAnalyze == AInit /\ [][ANext]_vars

\* download_audio called once, on any reference and any file system
SpecDownload == DInit /\ [][DNext]_vars

\* one request, served by predict or by transcribe_segment
Spec == Init /\ [][Next]_vars

\* one predict request served by the simple backend
SpecSimple == SInit /\ [][SNext]_vars

\* analyze_audio_with_gemini when every external call it makes returns or
\* raises: the function is synchronous, so its next step is always taken
SpecAnalyzeFair == AInit /\ [][ANext]_vars /\ WF_vars(ANext)

(***************************************************************************)
(* Properties of the formatter.                                            *)
(***************************************************************************)
OptionalKeys == <<"language", "gender", "emotion", "text">>

\* from_name of the entry the formatter emits for an optional key
FromNameOf(key) == IF key = "text" THEN "transcription" ELSE key

\* the key is in the dict, whatever its value
KeyPresent(segment, key) == key \in DOMAIN segment

\* the key is in the dict with a non-empty value
KeyNonEmpty(segment, key) == key \in DOMAIN segment /\ segment[key] # ""

\* The run of from_names a segment is expected to produce, given which
\* optional keys count as present.
ExpectedNames(segment, Pres(_, _)) ==
    LET pick(k) == IF Pres(segment, k) THEN <<FromNameOf(k)>> ELSE <<>>
    IN <<"speaker_labels">> \o pick("language") \o pick("gender")
       \o pick("emotion") \o pick("text")

RECURSIVE SumUpTo(_, _)
SumUpTo(lens, i) == IF i = 0 THEN 0 ELSE lens[i] + SumUpTo(lens, i - 1)

\* index before the first entry of segment i's run
RunStart(segments, i, Pres(_, _)) ==
    SumUpTo([j \in 1..Len(segments) |-> Len(ExpectedNames(segments[j], Pres))], i - 1)

\* the segments the formatter iterates over
LoopSegments(analysis) == IF HasSegments(analysis) THEN analysis.segments ELSE <<>>

\* out.result holds, for every segment in order, exactly the expected run,
\* with the documented payloads
RunsAsExpected(analysis, out, Pres(_, _)) ==
    LET segs == LoopSegments(analysis)
        n == Len(segs)
        total == IF n = 0 THEN 0
                 ELSE RunStart(segs, n, Pres) + Len(ExpectedNames(segs[n], Pres))
    IN /\ Len(out.result) >= total
       /\ \A j \in 1..Len(out.result) : j > total => out.result[j].from_name = "summary"
       /\ \A i \in 1..n :
            LET names == ExpectedNames(segs[i], Pres)
                base == RunStart(segs, i, Pres)
            IN \A j \in 1..Len(names) :
                LET e == out.result[base + j]
                IN /\ e.from_name = names[j]
                   /\ names[j] = "speaker_labels" =>
                        e.value.labels =
                            <<IF "speaker_id" \in DOMAIN segs[i]
                              THEN segs[i]["speaker_id"] ELSE "Speaker 1">>
                   /\ names[j] \in {"language", "gender", "emotion"} =>
                        e.value.choices = <<segs[i][names[j]]>>
                   /\ names[j] = "transcription" =>
                        e.value.text = <<segs[i]["text"]>>

\* the entries of out.result that carry a region identifier
RegionEntries(out) == SelectSeq(out.result, LAMBDA e : "id" \in DOMAIN e)

\* an entry without its region identifier
WithoutId(e) == [k \in DOMAIN e \ {"id"} |-> e[k]]

WithoutIds(out) ==
    [out EXCEPT !.result = [j \in 1..Len(out.result) |-> WithoutId(out.result[j])]]

C8_SharedRegion ==
    \A c \in 1..Len(f_out) :
        LET segs == LoopSegments(f_analysis)
            out == f_out[c]
        IN \A i \in 1..Len(segs) :
            LET base == RunStart(segs, i, KeyNonEmpty)
                len == Len(ExpectedNames(segs[i], KeyNonEmpty))
            IN /\ base + len <= Len(out.result)
               /\ \A p, q \in (base + 1)..(base + len) :
                    /\ "id" \in DOMAIN out.result[p]
                    /\ out.result[p].id = out.result[q].id
                    /\ out.result[p].value.start = out.result[q].value.start
                    /\ out.result[p].value.end = out.result[q].value.end

\* C8 witness: a call has returned for two segments, the second of which
\* produced all five entries.
C8_Witness ==
    /\ Len(f_out) >= 1
    /\ Len(LoopSegments(f_analysis)) = 2
    /\ Len(ExpectedNames(f_analysis.segments[2], KeyNonEmpty)) = 5
    /\ Len(f_out[1].result) >= 6

\* C9 (as stated): every segment yields the run speaker-label, language,
\* gender, emotion, transcription, each of the last four exactly when its
\* key is present in the segment.
C9_RunPerPresentKey ==
    \A c \in 1..Len(f_out) : RunsAsExpected(f_analysis, f_out[c], KeyPresent)

\* C9 (amended): every segment yields the run speaker-label, language,
\* gender, emotion, transcription, each of the last four exactly when its
\* key is present with a non-empty value; the speaker label is the
\* segment's speaker_id, or "Speaker 1" when the key is absent.
C9_RunPerNonEmptyKey ==
    \A c \in 1..Len(f_out) : RunsAsExpected(f_analysis, f_out[c], KeyNonEmpty)

\* C9 witness: a call has returned for a segment that holds only speaker_id
\* and text (two entries) followed by one that holds speaker_id, text and
\* language (three entries).
C9_Witness ==
    /\ Len(f_out) >= 1
    /\ Len(LoopSegments(f_analysis)) = 2
    /\ DOMAIN f_analysis.segments[1] = {"start_time", "end_time", "speaker_id", "text"}
    /\ f_analysis.segments[1]["text"] # ""
    /\ DOMAIN f_analysis.segments[2] =
            {"start_time", "end_time", "speaker_id", "text", "language"}
    /\ f_analysis.segments[2]["text"] # ""
    /\ Len(RegionEntries(f_out[1])) = 5

(***************************************************************************)
(* Properties of the resolver.                                             *)
(***************************************************************************)
\* download_audio has had no effect: no probe, no temp file, no network call
NoEffect ==
    /\ d_trace = <<>>
    /\ d_temp = NoPath
    /\ d_headers = <<>>
    /\ tmp_count = 0
    /\ created = {}
    /\ fs = fs0

\* C6: once download_audio has moved on from a reference that starts with
\* blob:, it has raised HTTP 400, and it has made no existence check, no
\* glob search, no temp file, no credential refresh and no GET.
C6_BlobRejectedFirst ==
    IsBlob(d_url) /\ d_pc # "start" =>
        /\ d_pc = "raised"
        /\ d_ret = Raised(400)
        /\ NoEffect

\* a blob: reference was rejected on a disk that holds files to probe and
\* with a credential that could have been refreshed
C6_Witness ==
    /\ IsBlob(d_url)
    /\ d_pc = "raised"
    /\ fs = LocalFiles
    /\ IsJwt(api_key)

(***************************************************************************)
(* Properties of the request handlers.                                     *)
(***************************************************************************)
Finished == pc = "done"

\* C2: when the request has finished, every file that was on disk when it
\* arrived is still there.
C2_PreExistingKept == Finished => fs0 \subseteq fs

\* C3: when the request has finished, no file the process created while
\* serving it is left on disk.
C3_NoTempLeft == Finished => created \cap fs = {}

\* C4: when extract_audio_segment has raised, the output file it created
\* no longer exists.
C4_OutputDeletedOnFailure == e_pc = "raised" => e_temp \notin fs

FailedSteps(task) ==
    {k \in 1..Len(p_trace) : p_trace[k].task = task /\ ~p_trace[k].ok}

EntriesOf(task) == {k \in 1..Len(results) : results[k].task = task}

\* the tasks of the batch the loop has dealt with so far
TasksDone == 1..(IF task_idx = 0 THEN 0 ELSE task_idx - 1)

\* C5: a predict request with tasks always ends with the answer 200, and
\* by then the loop has gone through every task.  A task in which a step
\* raised has exactly one empty entry in results (result = [], score 0.0);
\* when the step was resolution, analysis or formatting, that entry is the
\* only one of the task.
C5_FailureIsolated ==
    /\ \A task \in TasksDone \cap DOMAIN request.tasks :
        FailedSteps(task) # {} =>
            /\ Cardinality({k \in EntriesOf(task) :
                    results[k].prediction = EmptyPrediction}) = 1
            /\ (\A k \in FailedSteps(task) : p_trace[k].step # "log")
                    => Cardinality(EntriesOf(task)) = 1
    /\ (Finished /\ request.kind = "predict" /\ request.tasks # <<>>) =>
        /\ reply.status = 200
        /\ reply.results = results
        /\ task_idx = Len(request.tasks) + 1
        /\ \A task \in DOMAIN request.tasks :
            request.tasks[task].audio # <<>> =>
                \E k \in 1..Len(p_trace) :
                    p_trace[k].task = task /\ p_trace[k].step = "resolve"

\* the first task failed, the second one was processed to a prediction
C5_Witness ==
    /\ Finished
    /\ Len(request.tasks) = 2
    /\ FailedSteps(1) # {}
    /\ \E k \in EntriesOf(2) : results[k].prediction.result # <<>>

(***************************************************************************)
(* Properties of the model client.                                         *)
(***************************************************************************)
\* the external calls of the trace that are content generations
IsGenerate(e) == e.call \in {"generate_full", "generate_simple"}

\* a generation that came back with content
HasContent(e) == IsGenerate(e) /\ ~e.outcome.raised /\ e.outcome.parts

\* The document a text carries once an opening json fence and a closing
\* fence are taken off, when what is left is one JSON document.
Unfenced(text) ==
    LET a == IF text # <<>> /\ Head(text) = FenceJson THEN Tail(text) ELSE text
    IN IF a # <<>> /\ a[Len(a)] = Fence THEN [j \in 1..(Len(a) - 1) |-> a[j]] ELSE a

Parsable(text) == Len(Unfenced(text)) = 1 /\ Unfenced(text)[1] \notin {FenceJson, Fence, Junk}

\* an external call that failed: it raised, or it is a generation whose
\* text is no JSON
FailedCall(e) ==
    \/ e.outcome.raised
    \/ HasContent(e) /\ ~Parsable(e.outcome.text)

\* a generation that came back without content and with the safety reason
SafetyBlocked(e) ==
    /\ IsGenerate(e) /\ ~e.outcome.raised /\ ~e.outcome.parts
    /\ e.outcome.candidates = <<SAFETY>>

\* the trace positions at which an attempt starts
AttemptStarts == {i \in 1..Len(a_trace) : a_trace[i].call = "init_gemini"}

\* every attempt made so far ended in a failed call, and there were n of them
AllAttemptsFailed(n) ==
    /\ Cardinality(AttemptStarts) = n
    /\ \A i \in AttemptStarts :
        LET last == IF \E k \in AttemptStarts : k > i
                    THEN (CHOOSE k \in AttemptStarts :
                            k > i /\ \A m \in AttemptStarts : m > i => k <= m) - 1
                    ELSE Len(a_trace)
        IN FailedCall(a_trace[last]) /\ \A j \in i..last : ~SafetyBlocked(a_trace[j])

\* the fixed degraded structure: one placeholder segment, speakers = [],
\* total_duration = 0
IsDegraded(r) ==
    /\ r.kind = "dict" /\ r.segT = "list" /\ Len(r.segments) = 1
    /\ r.segments[1]["confidence"] = "0.0"
    /\ "speakers" \in DOMAIN r.d /\ r.d["speakers"] = <<>>
    /\ "total_duration" \in DOMAIN r.d /\ r.d["total_duration"] = 0

\* C1 (as stated): analyze_audio_with_gemini never raises; whatever the
\* model answers, the value returned has a non-empty segments list; and
\* after 3 attempts that all failed it is the fixed degraded structure.
C1_AlwaysNonEmptySegments ==
    /\ a_pc # "raised"
    /\ a_pc = "returned" => a_ret.kind = "dict" /\ HasSegments(a_ret)
    /\ a_pc = "returned" /\ AllAttemptsFailed(max_retries) => IsDegraded(a_ret)

\* C10: whenever the simplified-prompt retry that follows a safety block
\* comes back with parsable content, the call returns at once, and returns
\* the document parsed from that content rather than the fallback result;
\* this covers a safety block on the first model response.
C10_RetryResultReturned ==
    \A i \in 1..Len(a_trace) :
        (a_trace[i].call = "generate_simple" /\ HasContent(a_trace[i])
            /\ Parsable(a_trace[i].outcome.text)) =>
            /\ i = Len(a_trace)
            /\ SafetyBlocked(a_trace[i - 1])
            /\ a_pc = "returned"
            /\ a_ret = Unfenced(a_trace[i].outcome.text)[1].v
            /\ a_ret # get_fallback_response

\* C10 witness: the first response was a safety block, the retry answered
\* with a fenced JSON document, and the call has returned.
C10_Witness ==
    /\ a_pc = "returned"
    /\ Len(a_trace) = 4
    /\ SafetyBlocked(a_trace[3])
    /\ a_trace[4].call = "generate_simple"
    /\ HasContent(a_trace[4])
    /\ a_trace[4].outcome.text = <<FenceJson, JsonOf(DocGood), Fence>>
    /\ a_ret = DocGood

(***************************************************************************)
(* Properties of the segment model client.                                 *)
(***************************************************************************)
CallsOf(call) == {i \in 1..Len(a_trace) : a_trace[i].call = call}

\* transcribe_segment_with_gemini has returned
SegmentReturned == request.kind = "transcribe_segment" /\ pc \in {"t_respond", "done"}
                   /\ a_trace # <<>>

\* the call failed: an external call raised, the model sent no content, or
\* its text is no JSON
SegmentCallFailed ==
    LET last == a_trace[Len(a_trace)]
    IN \/ last.outcome.raised
       \/ last.call = "generate_segment" /\ ~last.outcome.parts
       \/ last.call = "generate_segment" /\ ~Parsable(last.outcome.text)

IsPlaceholder(r) ==
    /\ r.kind = "dict"
    /\ DOMAIN r.d = {"transcription", "language", "gender", "emotion", "confidence"}
    /\ r.d["language"] = "Unknown"
    /\ r.d["emotion"] = "Neutral"
    /\ r.d["confidence"] = "0.0"

\* C11: once transcribe_segment_with_gemini has returned (it always does:
\* the handler goes on with a result), it has made one attempt: one
\* init_gemini, at most one upload and at most one generate_content, the
\* latter exactly when init and upload succeeded; and when the attempt
\* failed (exception, no content, unparsable text) the result is a
\* placeholder with language Unknown, emotion Neutral, confidence 0.0.
C11_SingleCallNeverRaises ==
    /\ pc = "t_respond" => t_result # NoResult /\ a_trace # <<>>
    /\ SegmentReturned =>
        /\ Cardinality(CallsOf("init_gemini")) = 1
        /\ Cardinality(CallsOf("upload_file")) <= 1
        /\ Cardinality(CallsOf("generate_segment")) <= 1
        /\ (\A i \in 1..Len(a_trace) : ~a_trace[i].outcome.raised)
                => Cardinality(CallsOf("generate_segment")) = 1
        /\ CallsOf("generate_full") \cup CallsOf("generate_simple") = {}
        /\ SegmentCallFailed => IsPlaceholder(t_result)

\* the model answered the segment prompt without content, and the call
\* returned the placeholder
C11_Witness ==
    /\ pc = "t_respond"
    /\ Len(a_trace) = 3
    /\ a_trace[3].call = "generate_segment"
    /\ ~a_trace[3].outcome.raised /\ ~a_trace[3].outcome.parts
    /\ t_result = NoContentResult

(***************************************************************************)
(* Properties of the resolver: order of the steps.                         *)
(***************************************************************************)
\* download_audio has left its local steps behind
Resolved == d_pc \in {"token", "get", "returned", "raised"}

\* the local steps that find something for the reference on the disk the
\* call started with, in the order of the code
HittingSteps ==
    LET steps == LocalSteps(StripHost(d_url), fs0)
    IN {n \in 1..Len(steps) : steps[n].hits # {}}

FirstHittingStep == CHOOSE n \in HittingSteps : \A m \in HittingSteps : n <= m

\* the probes of steps 1..n, in order
RECURSIVE ProbesUpTo(_, _)
ProbesUpTo(steps, n) ==
    IF n = 0 THEN <<>> ELSE ProbesUpTo(steps, n - 1) \o steps[n].fx

NetworkOps == {"mkstemp", "refresh", "get", "write", "unlink"}

\* C12: when a local step finds an existing file for a reference (absolute
\* path, upload pattern, local-files query, filename search, bare name,
\* rooted path, file URI, tried in this order), download_audio returns a
\* path found by the first such step; it has made the probes of the steps
\* up to that one and no other, and has created no temp file, attempted no
\* credential refresh and issued no GET.
C12_FirstLocalHitEnds ==
    (Resolved /\ ~IsBlob(d_url) /\ HittingSteps # {}) =>
        LET steps == LocalSteps(StripHost(d_url), fs0)
        IN /\ d_pc = "returned"
           /\ d_ret.ok
           /\ d_ret.path \in steps[FirstHittingStep].hits
           /\ d_trace = ProbesUpTo(steps, FirstHittingStep)
           /\ \A k \in 1..Len(d_trace) : d_trace[k].op \notin NetworkOps
           /\ d_temp = NoPath /\ tmp_count = 0 /\ created = {}
           /\ d_headers = <<>>
           /\ fs = fs0

\* a bare file name that the filename search finds in an upload directory
\* while the bare-name step would find it under the data root as well
C12_Witness ==
    /\ d_pc = "returned"
    /\ d_url = RefBare
    /\ fs = LocalFiles
    /\ IsJwt(api_key)
    /\ Cardinality(HittingSteps) >= 2
    /\ d_ret.path = UploadedHashedTest

\* C13: whenever download_audio has returned, it has returned a path that
\* exists on disk at that moment; the only other way it ends is by raising
\* an HTTP error (400 or 500).  This holds for every reference shape:
\* absolute path, upload pattern, local-files query, bare name, rooted
\* path, file URI and HTTP URL.
C13_ReturnedPathExists ==
    /\ d_pc = "returned" => d_ret.ok /\ d_ret.path # NoPath /\ Exists(fs, d_ret.path)
    /\ d_pc = "raised" => ~d_ret.ok /\ d_ret.status \in {400, 500}
    /\ d_pc \in {"idle", "start", "token", "get", "returned", "raised"}

\* a local-files query resolved to the file it names
C13_Witness ==
    /\ d_pc = "returned"
    /\ d_url = RefLocalFilesAbs
    /\ d_ret.path = RootTest
    /\ fs = {RootTest}

\* C14 (as stated): for the reference /data/upload/3/call.mp3, whenever
\* upload/3/call.mp3 exists under the media root, download_audio returns
\* that media-root path, whatever else is on disk, and creates or downloads
\* nothing.
C14_MediaRootPathAlways ==
    (d_url = RefUpload /\ UploadedCall \in fs0 /\ Resolved) =>
        /\ d_pc = "returned"
        /\ d_ret = Returned(UploadedCall)
        /\ tmp_count = 0 /\ created = {} /\ fs = fs0
        /\ \A k \in 1..Len(d_trace) : d_trace[k].op \notin NetworkOps

\* C14 (amended): the same, provided no file exists at the absolute path
\* /data/upload/3/call.mp3 itself; the other files on disk make no
\* difference.
C14_MediaRootPathUnlessAbsolute ==
    (d_url = RefUpload /\ UploadedCall \in fs0 /\ ~Exists(fs0, RefUpload) /\ Resolved) =>
        /\ d_pc = "returned"
        /\ d_ret = Returned(UploadedCall)
        /\ tmp_count = 0 /\ created = {} /\ fs = fs0
        /\ \A k \in 1..Len(d_trace) : d_trace[k].op \notin NetworkOps

\* the media-root file was returned although another upload directory
\* holds a file whose name contains call.mp3
C14_Witness ==
    /\ d_url = RefUpload
    /\ d_pc = "returned"
    /\ d_ret.path = UploadedCall
    /\ fs0 = LocalFiles \ {RefUpload}

(***************************************************************************)
(* Properties of the model client: retries.                                *)
(***************************************************************************)
\* a full-prompt generation that was safety-blocked
BlockedAttempt(e) == e.call = "generate_full" /\ SafetyBlocked(e)

\* what retry_count was before external call i: one for every earlier call
\* that failed and one for every earlier safety-blocked full generation
RECURSIVE ConsumedBefore(_)
ConsumedBefore(i) ==
    IF i <= 1 THEN 0
    ELSE ConsumedBefore(i - 1)
         + (IF FailedCall(a_trace[i - 1]) \/ BlockedAttempt(a_trace[i - 1]) THEN 1 ELSE 0)

\* the simplified-prompt call follows call i at once (or is about to)
RetryIssuedAfter(i) ==
    IF i < Len(a_trace) THEN a_trace[i + 1].call = "generate_simple" ELSE a_pc = "simple"

\* C15 (as stated): every safety-blocked attempt is followed by exactly one
\* simplified-prompt call, however many earlier attempts failed.
C15_RetryAfterEveryBlock ==
    \A i \in 1..Len(a_trace) :
        /\ BlockedAttempt(a_trace[i]) => RetryIssuedAfter(i)
        /\ a_trace[i].call = "generate_simple" =>
                i > 1 /\ BlockedAttempt(a_trace[i - 1])

\* C15 (amended): a safety-blocked attempt is followed by exactly one
\* simplified-prompt call when at most one retry count had been consumed
\* before it; when two had been consumed, no simplified-prompt call is made
\* and the fallback result is returned.  A simplified-prompt call is never
\* made otherwise.
C15_RetryUnlessExhausted ==
    /\ retry_count = ConsumedBefore(Len(a_trace) + 1)
    /\ \A i \in 1..Len(a_trace) :
        /\ (BlockedAttempt(a_trace[i]) /\ ConsumedBefore(i) <= 1) => RetryIssuedAfter(i)
        /\ (BlockedAttempt(a_trace[i]) /\ ConsumedBefore(i) >= 2) =>
                /\ i = Len(a_trace)
                /\ a_pc = "returned"
                /\ a_ret = get_fallback_response
        /\ a_trace[i].call = "generate_simple" =>
                i > 1 /\ BlockedAttempt(a_trace[i - 1])

\* an attempt failed by exception, the next one was safety-blocked and its
\* simplified-prompt retry was made
C15_Witness ==
    /\ Len(a_trace) = 5
    /\ a_trace[1].outcome.raised
    /\ BlockedAttempt(a_trace[4])
    /\ ConsumedBefore(4) = 1
    /\ a_trace[5].call = "generate_simple"

(***************************************************************************)
(* Properties of the model client: the fallback result.                    *)
(***************************************************************************)
\* the call has returned after a generation that came back without content
ReturnedBlocked ==
    /\ a_pc = "returned"
    /\ a_trace # <<>>
    /\ IsGenerate(a_trace[Len(a_trace)])
    /\ ~a_trace[Len(a_trace)].outcome.raised
    /\ ~a_trace[Len(a_trace)].outcome.parts

\* one placeholder segment whose text says the content was blocked by the
\* safety filters, and a non-empty summary
OneBlockedSegment(r) ==
    /\ r.kind = "dict" /\ r.segT = "list" /\ Len(r.segments) = 1
    /\ r.segments[1]["text"] = "[Content could not be analyzed due to safety filters]"
    /\ Truthy(r.d, "summary_uzbek")

\* C16: the result returned when the content stays blocked has
\* one safety-blocked placeholder segment, a non-empty summary, and empty
\* lists of detected languages and emotions.
C16_FallbackEmptyLists ==
    ReturnedBlocked =>
        /\ OneBlockedSegment(a_ret)
        /\ Get(a_ret.d, "languages_detected", <<"absent">>) = <<>>
        /\ Get(a_ret.d, "emotions_detected", <<"absent">>) = <<>>

(***************************************************************************)
(* Properties of the model client: retry, then degrade.                    *)
(***************************************************************************)
\* the last external call of the attempt that starts at trace position i
AttemptEnd(i) ==
    IF \E k \in AttemptStarts : k > i
    THEN (CHOOSE k \in AttemptStarts : k > i /\ \A m \in AttemptStarts : m > i => k <= m) - 1
    ELSE Len(a_trace)

\* the call has returned and every attempt ended in a call that raised or
\* in content that is no JSON
EveryAttemptFailed ==
    /\ a_pc = "returned"
    /\ AttemptStarts # {}
    /\ \A i \in AttemptStarts : FailedCall(a_trace[AttemptEnd(i)])

\* the same, and no attempt was safety-blocked on the way
EveryAttemptFailedPlain ==
    /\ EveryAttemptFailed
    /\ \A i \in 1..Len(a_trace) : ~SafetyBlocked(a_trace[i])

\* every failure happened at the generation: unparsable content, or an
\* exception raised by generate_content
FailedAtGeneration ==
    \A i \in AttemptStarts : IsGenerate(a_trace[AttemptEnd(i)])

\* C17 (as stated): when every attempt has failed by unparsable content or
\* by an exception, the invocation has been started exactly 3 times and the
\* fixed minimal error result is returned, never an error.
C17_ThreeFullInvocations ==
    /\ a_pc # "raised"
    /\ EveryAttemptFailed =>
        /\ Cardinality(AttemptStarts) = 3
        /\ IsDegraded(a_ret)

\* C17 (amended): when every attempt has failed by unparsable content or by
\* an exception and none was safety-blocked, exactly 3 attempts have been
\* made and the fixed minimal error result is returned, never an error;
\* the upload and the generation have each been performed exactly 3 times
\* when every failure happened at the generation.
C17_ThreeAttemptsThenDegraded ==
    /\ a_pc # "raised"
    /\ EveryAttemptFailedPlain =>
        /\ Cardinality(AttemptStarts) = 3
        /\ a_ret \in {JsonErrorResult, ExceptionResult}
        /\ IsDegraded(a_ret)
        /\ Cardinality(CallsOf("upload_file")) <= 3
        /\ FailedAtGeneration =>
            /\ Cardinality(CallsOf("upload_file")) = 3
            /\ Cardinality(CallsOf("generate_full")) = 3

\* three attempts, each answered with text that is no JSON
C17_Witness ==
    /\ a_pc = "returned"
    /\ Len(a_trace) = 9
    /\ \A i \in {3, 6, 9} : HasContent(a_trace[i]) /\ a_trace[i].outcome.text = <<Junk>>
    /\ a_ret = JsonErrorResult

(***************************************************************************)
(* Properties of the simple backend.                                       *)
(***************************************************************************)
\* C18: when download_audio has raised after it created a temp file for the
\* fetch, that temp file no longer exists (either backend).
C18_FailedFetchLeavesNoTemp ==
    (d_pc = "raised" /\ d_temp # NoPath) => ~Exists(fs, d_temp)

\* C19: the simple backend's predict never deletes a file that was on disk
\* when the request arrived; what it unlinks is a temp file of the download.
C19_LocalFileNeverDeleted == fs0 \subseteq fs

(***************************************************************************)
(* Properties of the formatter: the summary entry.                         *)
(***************************************************************************)
\* the positions of the summary entries in a result list
SummaryPositions(result) == {j \in 1..Len(result) : result[j].from_name = "summary"}

\* C20: every call emits the summary entry exactly once, as the last entry
\* and without a region identifier, when the analysis has a non-empty
\* summary, and emits no summary entry otherwise; with a summary and no
\* segments the output is exactly that one entry.
C20_SummaryOnceAndLast ==
    \A c \in 1..Len(f_out) :
        LET result == f_out[c].result
        IN IF Truthy(f_analysis.d, "summary_uzbek")
           THEN /\ SummaryPositions(result) = {Len(result)}
                /\ "id" \notin DOMAIN result[Len(result)]
                /\ result[Len(result)].value = [text |-> <<f_analysis.d["summary_uzbek"]>>]
                /\ result[Len(result)].type = "textarea"
                /\ (LoopSegments(f_analysis) = <<>>) = (Len(result) = 1)
           ELSE SummaryPositions(result) = {}

\* C20 witness: a call has returned for an analysis with a summary and no
\* segments: the summary entry is the whole output
C20_Witness ==
    /\ Len(f_out) >= 1
    /\ Truthy(f_analysis.d, "summary_uzbek")
    /\ LoopSegments(f_analysis) = <<>>
    /\ Len(f_out[1].result) = 1
    /\ f_out[1].result[1].from_name = "summary"

(***************************************************************************)
(* Properties of the request handlers: the order of the steps.             *)
(***************************************************************************)
\* the place of a step in the order resolve, extract, analyze, format (then
\* the prints of predict, or the response of transcribe_segment), cleanup
StepRank(step) ==
    CASE step = "resolve" -> 1
      [] step = "extract" -> 2
      [] step = "analyze" -> 3
      [] step = "format" -> 4
      [] step \in {"log", "respond"} -> 5
      [] step = "cleanup" -> 6

\* the steps are recorded task after task in input order, and within a task
\* in the order of StepRank
TasksInOrder ==
    \A i, j \in 1..Len(p_trace) :
        i < j =>
            /\ p_trace[i].task <= p_trace[j].task
            /\ p_trace[i].task = p_trace[j].task =>
                    StepRank(p_trace[i].step) < StepRank(p_trace[j].step)

\* a called function is active only while the handler waits for it
OneAtATime ==
    /\ d_pc # "idle" => pc \in {"p_download", "t_download"}
    /\ a_pc # "idle" => pc = "p_analyze"
    /\ e_pc # "idle" => pc = "t_extract"

\* C21 (as stated): the steps run task after task in input order and, within
\* a task, in the order resolve, (extract,) analyze, format, cleanup; after
\* a step that raised no later step of the task runs.
C21_NoStepAfterFailure ==
    /\ TasksInOrder
    /\ OneAtATime
    /\ \A i, j \in 1..Len(p_trace) :
        (i < j /\ p_trace[i].task = p_trace[j].task) => p_trace[i].ok

\* C21 (amended): the steps run task after task in input order and, within
\* a task, in the order resolve, (extract,) analyze, format, cleanup; after
\* a step that raised, the only later step of the task is the cleanup, which
\* runs whenever the resolution has succeeded.
C21_OnlyCleanupAfterFailure ==
    /\ TasksInOrder
    /\ OneAtATime
    /\ \A i, j \in 1..Len(p_trace) :
        (i < j /\ p_trace[i].task = p_trace[j].task /\ ~p_trace[i].ok) =>
            p_trace[j].step = "cleanup"
    /\ Finished =>
        \A i \in 1..Len(p_trace) :
            (p_trace[i].step = "resolve" /\ p_trace[i].ok) =>
                \E j \in (i + 1)..Len(p_trace) :
                    p_trace[j].task = p_trace[i].task /\ p_trace[j].step = "cleanup"

\* C21 witness: a batch of two tasks has finished; the first task's
\* formatting raised and was followed by its cleanup, then the second task
\* went through all of its steps
C21_Witness ==
    /\ Finished
    /\ request.kind = "predict"
    /\ \E i \in 1..(Len(p_trace) - 1), j \in 1..Len(p_trace) :
        /\ p_trace[i] = Step(1, "format", FALSE)
        /\ p_trace[i + 1] = Step(1, "cleanup", TRUE)
        /\ p_trace[j] = Step(2, "format", TRUE)
        /\ i < j

(***************************************************************************)
(* Properties of transcribe_segment: which failures reach the caller.      *)
(***************************************************************************)
\* the resolution or the extraction of the request has raised
FailedBeforeModel ==
    \E i \in 1..Len(p_trace) :
        p_trace[i] \in {Step(1, "resolve", FALSE), Step(1, "extract", FALSE)}

\* C22: when transcribe_segment has answered, a failure of the resolution
\* or of the extraction has given the one response with status 500 and the
\* model has not been called; a failure of the model call (exception, no
\* content, unparsable text) has given a response with status 200 that
\* carries the placeholder segment result.
C22_SegmentFailures ==
    (request.kind = "transcribe_segment" /\ Finished) =>
        /\ FailedBeforeModel =>
            /\ reply.status = 500
            /\ reply.body = EmptyDict
            /\ a_trace = <<>>
            /\ t_result = NoResult
        /\ (a_trace # <<>> /\ SegmentCallFailed) =>
            /\ reply.status = 200
            /\ IsPlaceholder(t_result)
            /\ reply.body = t_result.d
            /\ ~FailedBeforeModel

\* C22 witness: the extraction raised and the request was answered with 500
\* without a model call
C22_Witness ==
    /\ request.kind = "transcribe_segment"
    /\ Finished
    /\ p_trace[Len(p_trace) - 1] = Step(1, "extract", FALSE)
    /\ reply.status = 500
    /\ a_trace = <<>>

(***************************************************************************)
(* Properties of the download step: the credential.                        *)
(***************************************************************************)
\* the positions of the events of one kind in the history of download_audio
ProbesOf(op) == {i \in 1..Len(d_trace) : d_trace[i].op = op}

\* the token get_access_token returned to download_audio
TokenObtained == d_trace[CHOOSE i \in ProbesOf("token") : TRUE].arg

\* the refresh exchange was made and gave an access token
RefreshSucceeded ==
    \E i \in ProbesOf("refreshed") :
        Head(d_trace[i].arg) = "200" /\ Len(d_trace[i].arg) > 1

\* C23: once download_audio has its token, the Authorization header is
\* Bearer and the token exactly when the token starts with eyJ, Token and
\* the token for any other non-empty token, and absent when no credential
\* is configured; get_access_token has returned (it never raises), and what
\* it returned is the configured token unless the refresh exchange answered
\* 200 with an access token, which only a credential that starts with eyJ
\* is exchanged for.
C23_AuthorizationScheme ==
    /\ Cardinality(ProbesOf("token")) <= 1
    /\ d_pc \in {"get", "returned", "raised"} /\ d_temp # NoPath => ProbesOf("token") # {}
    /\ ProbesOf("token") # {} =>
        /\ d_pc \in {"get", "returned", "raised"}
        /\ IF TokenObtained = <<>> THEN d_headers = <<>>
           ELSE IF Head(TokenObtained) = "eyJ" THEN d_headers = <<"Bearer">> \o TokenObtained
           ELSE d_headers = <<"Token">> \o TokenObtained
        /\ api_key = <<>> => TokenObtained = <<>> /\ d_headers = <<>>
        /\ (ProbesOf("refresh") # {}) = (api_key # <<>> /\ Head(api_key) = "eyJ")
        /\ Cardinality(ProbesOf("refresh")) = Cardinality(ProbesOf("refreshed"))
        /\ ~RefreshSucceeded => TokenObtained = api_key
        /\ RefreshSucceeded =>
            \E i \in ProbesOf("refreshed") : TokenObtained = Tail(d_trace[i].arg)

\* C23 witness: the refresh exchange of a JWT credential failed, and the
\* GET carries the configured token with the Bearer scheme
C23_Witness ==
    /\ d_pc = "get"
    /\ api_key = <<"eyJ", "refresh">>
    /\ \E i \in ProbesOf("refreshed") : d_trace[i].arg = <<"401">>
    /\ d_headers = <<"Bearer", "eyJ", "refresh">>

(***************************************************************************)
(* Properties of the model client: bounded work and termination.           *)
(***************************************************************************)
GenerationCalls == CallsOf("generate_full") \cup CallsOf("generate_simple")

\* at most 3 generation calls, at most 3 uploads, and the raise after the
\* loop has not been reached
BoundedWork ==
    /\ Cardinality(GenerationCalls) <= 3
    /\ Cardinality(CallsOf("upload_file")) <= 3
    /\ Cardinality(AttemptStarts) <= 3
    /\ retry_count <= 3
    /\ a_pc # "raised"

\* C24: whatever the model calls do, one run of analyze_audio_with_gemini
\* makes at most 3 generation calls (both prompts counted together) and at
\* most 3 uploads, never reaches the raise after its loop, and, every call
\* returning or raising, eventually returns.
C24_BoundedAndTerminates == []BoundedWork /\ <>(a_pc = "returned")

\* C24 witness: the run has returned after three generation calls, one of
\* them with the simplified prompt, and two uploads
C24_Witness ==
    /\ a_pc = "returned"
    /\ Cardinality(GenerationCalls) = 3
    /\ Cardinality(CallsOf("generate_simple")) = 1
    /\ Cardinality(CallsOf("upload_file")) = 2

(***************************************************************************)
(* Properties of predict: the shape of the response.                       *)
(***************************************************************************)
\* C25: the response of predict holds exactly one results entry per input
\* task, in input order: the i-th entry was appended for the i-th task.
C25_OneEntryPerTask ==
    (request.kind = "predict" /\ Finished /\ reply.status = 200) =>
        /\ Len(reply.results) = Len(request.tasks)
        /\ \A i \in 1..Len(reply.results) : reply.results[i].task = i

(***************************************************************************)
(* Properties of the download step: where the GET goes.                    *)
(***************************************************************************)
\* the reference names a host of its own
IsAbsoluteHttp(url) == url # <<>> /\ Head(url) \in {"http://", "https://"}

\* C26: the GET of download_audio is issued to the reference itself when
\* the reference is an absolute HTTP(S) URL, and to the configured base URL
\* followed by the reference only when the reference is relative.
C26_GetGoesToOwnHost ==
    \A i \in ProbesOf("get") :
        IF IsAbsoluteHttp(d_url)
        THEN d_trace[i].arg = d_url
        ELSE StartsWith(d_trace[i].arg, LABEL_STUDIO_URL)

(***************************************************************************)
(* Properties of the resolver: file:// references and bare file names.     *)
(***************************************************************************)
IsFileUriOrBare(url) ==
    /\ url # <<>>
    /\ ~IsBlob(url)
    /\ (Head(url) = "file://" \/ ~HasSchemeOrSlash(url))

\* the file the reference itself names: the path after file://, or the
\* file of that name under the root directory
OwnTarget(url) ==
    IF Head(url) = "file://" THEN Tail(url) ELSE DataRoot \o <<"/">> \o url

\* the uploads whose name contains the file name of the reference, which
\* the search looks for when the reference ends in an audio extension
UploadNamesakes(url, files) ==
    { f \in files :
        /\ StartsWith(f, LABEL_STUDIO_MEDIA_ROOT \o <<"/", "upload", "/">>)
        /\ url[Len(url)] \in AudioExtensions
        /\ Contains(Basename(f), Basename(url)) }

\* download_audio was called with a file:// reference or a bare file name
\* whose own target exists, and has left its local steps behind
OwnTargetCase ==
    /\ Resolved
    /\ IsFileUriOrBare(d_url)
    /\ Exists(fs0, OwnTarget(d_url))

\* C27 (as stated): for a file:// reference or a bare file name whose own
\* target exists, download_audio returns exactly that target.
C27_OwnTargetAlways ==
    OwnTargetCase => d_pc = "returned" /\ d_ret.path = OwnTarget(d_url)

\* C27 (amended): for a file:// reference or a bare file name whose own
\* target exists, download_audio returns exactly that target when no upload
\* directory holds a file whose name contains the reference's file name,
\* and one of those uploads otherwise; in both cases without creating or
\* fetching anything.
C27_OwnTargetUnlessNamesake ==
    OwnTargetCase =>
        /\ d_pc = "returned"
        /\ d_temp = NoPath /\ fs = fs0
        /\ IF UploadNamesakes(d_url, fs0) = {}
           THEN d_ret.path = OwnTarget(d_url)
           ELSE d_ret.path \in UploadNamesakes(d_url, fs0)

\* C27 witness: a bare file name was resolved to the file of that name
\* under the root directory, no upload bearing the name
C27_Witness ==
    /\ d_pc = "returned"
    /\ d_url = RefBare
    /\ UploadNamesakes(d_url, fs0) = {}
    /\ d_ret.path = RootTest

(***************************************************************************)
(* Properties of the model client: content withheld for another reason.    *)
(***************************************************************************)
\* a full-prompt generation that came back without content and without the
\* safety reason: another finish reason, none, or no candidates
WithheldOtherwise(e) ==
    /\ e.call = "generate_full"
    /\ ~e.outcome.raised /\ ~e.outcome.parts
    /\ e.outcome.candidates # <<SAFETY>>

\* C28: a full-prompt response without content that is no safety block is
\* the last external call of the run: the function has returned the fixed
\* fallback result, no simplified-prompt call and no further attempt
\* follow, and the retry counter is what it was before that call.
C28_FallbackAtOnce ==
    \A i \in 1..Len(a_trace) :
        WithheldOtherwise(a_trace[i]) =>
            /\ i = Len(a_trace)
            /\ a_pc = "returned"
            /\ a_ret = get_fallback_response
            /\ retry_count = ConsumedBefore(i)

\* C28 witness: after one failed attempt, the second attempt's response
\* came without content and with another finish reason; the fallback was
\* returned with one retry consumed
C28_Witness ==
    /\ a_pc = "returned"
    /\ Len(a_trace) = 6
    /\ FailedCall(a_trace[3])
    /\ WithheldOtherwise(a_trace[6])
    /\ a_trace[6].outcome.candidates = <<3>>
    /\ retry_count = 1
    /\ a_ret = get_fallback_response

====
